---- MODULE Spec2Model ----
(***************************************************************************)
(* AI-Salary-Navigator (career-finder): the prediction form, the predict   *)
(* page's handlePrediction, the /api/predict route handler and the result  *)
(* presenter, as state machines.                                           *)
(*                                                                         *)
(* JavaScript values are tagged records: [t |-> "undef"], [t |-> "null"],  *)
(* [t |-> "str", v |-> s], [t |-> "num", v |-> n], [t |-> "obj", v |-> r]  *)
(* so that values of different types can be compared.  Text is a TLA+      *)
(* string; Len, \o and SubSeq act on it character by character.            *)
(***************************************************************************)
EXTENDS Integers, Sequences, FiniteSets, TLC

VARIABLES
    \* ---- PredictionForm (src/unnamed/part_004:696-713)
    formData,          \* jobTitle, yearsExperience, jobDescription, ...
    selectedSkills,    \* sequence of skill names
    selectedBenefits,  \* sequence of benefit names
    customSkill,       \* text of the custom-skill input
    customBenefit,     \* text of the custom-benefit input
    errors,            \* field name -> message, as set by validateForm
    onPredictCall,     \* <<payload>> when the last form step called onPredict
    roleSkillMapping,  \* the module-level ROLE_SKILL_MAPPING object (part_004:507-565)
    \* ---- PredictPage (src/career-finder/app/api/predict/route.ts:91-93)
    prediction,        \* <<>> (null) or <<result>>
    isLoading,
    error,             \* <<>> (null) or <<message>>
    inFlight,          \* handlePrediction calls awaiting their fetch
    settled,           \* what the last settled call saw and did
    \* ---- POST /api/predict (route.ts:5-54)
    routeCall,         \* the request and the backend's behaviour
    routeReply,        \* <<>> or <<the NextResponse>>
    \* ---- MarketAnalyticsDashboard (src/career-finder/app/analytics/page.tsx:102-112)
    data,              \* null or what setData was last given
    activeTab,
    filters,           \* location, experienceLevel, companySize, salaryRange
    analyticsIsLoading,  \* isLoading of the dashboard
    analyticsError,    \* error of the dashboard: <<>> (null) or <<message>>
    availableFilters,  \* <<>> ({}) or <<the data-summary>>
    overviewRequests,  \* fetchAnalyticsData calls awaiting their fetch
    summaryRequests,   \* number of fetchFilterOptions calls awaiting their fetch
    \* ---- a pure function under test: its input and its result
    pureIn,
    pureOut,
    \* ---- history: how many times the auto-select effect has populated
    \* selectedSkills (counted where a specification follows it)
    autoSelections

formVars == <<formData, selectedSkills, selectedBenefits, customSkill,
              customBenefit, errors, onPredictCall, roleSkillMapping>>
pageVars == <<prediction, isLoading, error, inFlight, settled>>
routeVars == <<routeCall, routeReply>>
analyticsVars == <<data, activeTab, filters, analyticsIsLoading, analyticsError,
                   availableFilters, overviewRequests, summaryRequests>>
pureVars == <<pureIn, pureOut>>
historyVars == <<autoSelections>>
vars == <<formVars, pageVars, routeVars, analyticsVars, pureVars, historyVars>>

(***************************************************************************)
(* JavaScript values                                                       *)
(***************************************************************************)
Undefined == [t |-> "undef"]
Null == [t |-> "null"]
Str(s) == [t |-> "str", v |-> s]
Num(n) == [t |-> "num", v |-> n]
Obj(r) == [t |-> "obj", v |-> r]

\* ToBoolean: undefined, null, "" and 0 are falsy.
Truthy(x) ==
    CASE x.t = "undef" -> FALSE
      [] x.t = "null" -> FALSE
      [] x.t = "str" -> x.v # ""
      [] x.t = "num" -> x.v # 0
      [] x.t = "ratio" -> x.n # 0  \* a number that need not be an integer
      [] OTHER -> TRUE  \* objects and arrays

Arr(q) == [t |-> "arr", v |-> q]

\* x.f: undefined when x has no such property; reading a property of null
\* or undefined throws a TypeError, which the caller checks with CanRead.
CanRead(x) == x.t \notin {"undef", "null"}
Get(x, f) == IF x.t = "obj" /\ f \in DOMAIN x.v THEN x.v[f] ELSE Undefined

\* Object.keys(x) of an object, {} otherwise
ObjectKeys(x) == IF x.t = "obj" THEN DOMAIN x.v ELSE {}

\* a || b
OrElse(a, b) == IF Truthy(a) THEN a ELSE b

\* String.prototype.includes
Includes(s, sub) ==
    \E i \in 1..(Len(s) - Len(sub) + 1) : SubSeq(s, i, i + Len(sub) - 1) = sub

\* n copies of s
RECURSIVE Repeat(_, _)
Repeat(s, n) ==
    IF n = 0 THEN ""
    ELSE LET h == Repeat(s, n \div 2)
         IN  IF n % 2 = 1 THEN h \o h \o s ELSE h \o h

(***************************************************************************)
(* VALIDATION_RULES (src/career-finder/lib/types.ts:284-311)               *)
(***************************************************************************)
jobTitleMinLength == 2
jobTitleMaxLength == 200
yearsExperienceMin == 0
yearsExperienceMax == 50
requiredSkillsMaxItems == 20
benefitsMaxItems == 15
jobDescriptionMaxLength == 10000

(***************************************************************************)
(* Input Normalizer: the experience tier                                   *)
(***************************************************************************)
\* An off-by-one reading of the boundaries (< for <=).
getExperienceLevelFromYearsStrict(years) ==
    IF years < 2 THEN "Entry Level"
    ELSE IF years < 5 THEN "Mid Level"
    ELSE IF years < 10 THEN "Senior Level"
    ELSE "Executive"

getExperienceLevelFromYears(years) ==
    IF years <= 2 THEN "Entry Level"
    ELSE IF years <= 5 THEN "Mid Level"
    ELSE IF years <= 10 THEN "Senior Level"
    ELSE "Executive"

(***************************************************************************)
(* Strings: toLowerCase, trim, parseInt                                    *)
(***************************************************************************)
UpperCaseLetters == "ABCDEFGHIJKLMNOPQRSTUVWXYZ"
LowerCaseLetters == "abcdefghijklmnopqrstuvwxyz"

LowerCaseOf ==
    [c \in {SubSeq(UpperCaseLetters, i, i) : i \in 1..26} |->
        LET i == CHOOSE i \in 1..26 : SubSeq(UpperCaseLetters, i, i) = c
        IN  SubSeq(LowerCaseLetters, i, i)]

LowerChar(c) == IF c \in DOMAIN LowerCaseOf THEN LowerCaseOf[c] ELSE c

\* String.prototype.toLowerCase
RECURSIVE ToLowerCase(_)
ToLowerCase(s) ==
    IF Len(s) = 0 THEN ""
    ELSE IF Len(s) = 1 THEN LowerChar(s)
    ELSE LET m == Len(s) \div 2
         IN  ToLowerCase(SubSeq(s, 1, m)) \o ToLowerCase(SubSeq(s, m + 1, Len(s)))

WhiteSpace == {" ", "\t", "\n"}

\* String.prototype.trim: from the first to the last character that is not
\* white space.
TrimStart(s) ==
    LET kept == {i \in 1..Len(s) : SubSeq(s, i, i) \notin WhiteSpace}
    IN  IF kept = {} THEN ""
        ELSE SubSeq(s, CHOOSE i \in kept : \A j \in kept : i <= j, Len(s))

TrimEnd(s) ==
    LET kept == {i \in 1..Len(s) : SubSeq(s, i, i) \notin WhiteSpace}
    IN  IF kept = {} THEN ""
        ELSE SubSeq(s, 1, CHOOSE i \in kept : \A j \in kept : i >= j)

Trim(s) == TrimEnd(TrimStart(s))

Digits == "0123456789"
IsDigit(c) == \E i \in 1..10 : SubSeq(Digits, i, i) = c
DigitValue(c) == (CHOOSE i \in 1..10 : SubSeq(Digits, i, i) = c) - 1

\* The value of the longest prefix of digits of s, as <<value, digits read>>.
RECURSIVE DigitPrefix(_, _, _)
DigitPrefix(s, acc, n) ==
    IF Len(s) > 0 /\ IsDigit(SubSeq(s, 1, 1))
    THEN DigitPrefix(SubSeq(s, 2, Len(s)), acc * 10 + DigitValue(SubSeq(s, 1, 1)), n + 1)
    ELSE <<acc, n>>

\* parseInt(s): leading white space, an optional sign, then digits; NaN (here
\* [t |-> "nan"]) when no digit follows.
ParseInt(s) ==
    LET t == TrimStart(s)
        neg == Len(t) > 0 /\ SubSeq(t, 1, 1) = "-"
        signed == Len(t) > 0 /\ SubSeq(t, 1, 1) \in {"-", "+"}
        r == DigitPrefix(IF signed THEN SubSeq(t, 2, Len(t)) ELSE t, 0, 0)
    IN  IF r[2] = 0 THEN [t |-> "nan"]
        ELSE Num(IF neg THEN 0 - r[1] ELSE r[1])

\* parseInt(s) || 0
ParseIntOrZero(s) ==
    LET n == ParseInt(s) IN IF n.t = "nan" \/ n.v = 0 THEN 0 ELSE n.v

(***************************************************************************)
(* Sequences as JavaScript arrays                                          *)
(***************************************************************************)
Range(q) == {q[i] : i \in DOMAIN q}
ArrayIncludes(q, x) == x \in Range(q)

\* Array.prototype.filter with the predicate "is not in the set drop"
RECURSIVE FilterOut(_, _)
FilterOut(q, drop) ==
    IF q = <<>> THEN <<>>
    ELSE IF Head(q) \in drop THEN FilterOut(Tail(q), drop)
    ELSE <<Head(q)>> \o FilterOut(Tail(q), drop)

\* Array.prototype.slice(0, n)
SliceTo(q, n) == SubSeq(q, 1, IF Len(q) < n THEN Len(q) ELSE n)

(***************************************************************************)
(* Input Normalizer: the role -> skill taxonomy                            *)
(***************************************************************************)
\* ROLE_SKILL_MAPPING in declaration order (the order of Object.entries).
ROLE_SKILL_MAPPING ==
    << [role |-> "data scientist",
        core |-> <<"Python", "Machine Learning", "Statistics", "SQL", "Pandas", "NumPy">>,
        advanced |-> <<"TensorFlow", "PyTorch", "Scikit-learn", "Deep Learning", "R">>,
        tools |-> <<"Jupyter", "Git", "Docker", "AWS">>],
       [role |-> "ml engineer",
        core |-> <<"Python", "Machine Learning", "TensorFlow", "PyTorch", "Docker">>,
        advanced |-> <<"Kubernetes", "MLOps", "Deep Learning", "Model Deployment">>,
        tools |-> <<"Git", "AWS", "Azure", "GCP", "Spark">>],
       [role |-> "data engineer",
        core |-> <<"Python", "SQL", "Spark", "Hadoop", "ETL">>,
        advanced |-> <<"Kafka", "Airflow", "Snowflake", "BigQuery">>,
        tools |-> <<"Docker", "Kubernetes", "AWS", "Git", "MongoDB">>],
       [role |-> "data analyst",
        core |-> <<"SQL", "Python", "Excel", "Statistics", "Data Visualization">>,
        advanced |-> <<"Tableau", "Power BI", "R", "Pandas">>,
        tools |-> <<"Git", "Jupyter", "Google Analytics">>],
       [role |-> "ai researcher",
        core |-> <<"Python", "Deep Learning", "TensorFlow", "PyTorch", "Research">>,
        advanced |-> <<"NLP", "Computer Vision", "Reinforcement Learning", "GANs">>,
        tools |-> <<"Git", "Jupyter", "LaTeX", "Docker">>],
       [role |-> "software engineer",
        core |-> <<"Python", "Git", "Algorithms", "Data Structures">>,
        advanced |-> <<"System Design", "Microservices", "APIs", "Testing">>,
        tools |-> <<"Docker", "Kubernetes", "AWS", "CI/CD">>],
       [role |-> "product manager",
        core |-> <<"Product Strategy", "Analytics", "A/B Testing", "User Research">>,
        advanced |-> <<"SQL", "Data Analysis", "Market Research", "Roadmapping">>,
        tools |-> <<"JIRA", "Figma", "Google Analytics", "Mixpanel">>],
       [role |-> "devops engineer",
        core |-> <<"Docker", "Kubernetes", "AWS", "CI/CD", "Linux">>,
        advanced |-> <<"Terraform", "Ansible", "Monitoring", "Security">>,
        tools |-> <<"Git", "Jenkins", "Prometheus", "Grafana">>],
       [role |-> "backend engineer",
        core |-> <<"Python", "APIs", "Databases", "System Design">>,
        advanced |-> <<"Microservices", "Caching", "Message Queues", "Security">>,
        tools |-> <<"Docker", "Git", "PostgreSQL", "Redis">>],
       [role |-> "frontend engineer",
        core |-> <<"JavaScript", "React", "HTML", "CSS", "TypeScript">>,
        advanced |-> <<"Next.js", "Vue.js", "State Management", "Testing">>,
        tools |-> <<"Git", "Webpack", "npm", "Figma">>] >>

SkillsOf(e) == [core |-> e.core, advanced |-> e.advanced, tools |-> e.tools]

\* ROLE_SKILL_MAPPING[role]
SkillsOfRole(role) ==
    SkillsOf(roleSkillMapping[CHOOSE i \in DOMAIN roleSkillMapping :
                                    roleSkillMapping[i].role = role])

NoSkills == [core |-> <<>>, advanced |-> <<>>, tools |-> <<>>]

\* getRecommendedSkills without toLowerCase.
getRecommendedSkillsCaseSensitive(jobTitle) ==
    IF jobTitle = "" THEN NoSkills
    ELSE
    LET has(sub) == Includes(jobTitle, sub)
        exact == {i \in DOMAIN roleSkillMapping : has(roleSkillMapping[i].role)}
    IN  IF exact # {}
        THEN SkillsOf(roleSkillMapping[CHOOSE i \in exact : \A j \in exact : i <= j])
        ELSE IF has("scientist") THEN SkillsOfRole("data scientist")
        ELSE IF has("engineer") /\ has("ml") THEN SkillsOfRole("ml engineer")
        ELSE IF has("engineer") /\ (has("data") \/ has("etl"))
             THEN SkillsOfRole("data engineer")
        ELSE IF has("analyst") THEN SkillsOfRole("data analyst")
        ELSE IF has("research") THEN SkillsOfRole("ai researcher")
        ELSE IF has("devops") \/ has("sre") THEN SkillsOfRole("devops engineer")
        ELSE IF has("product") THEN SkillsOfRole("product manager")
        ELSE IF has("backend") THEN SkillsOfRole("backend engineer")
        ELSE IF has("frontend") \/ has("react") \/ has("ui")
             THEN SkillsOfRole("frontend engineer")
        ELSE IF has("engineer") THEN SkillsOfRole("software engineer")
        ELSE NoSkills

\* getRecommendedSkills that leaves out of core what is selected already.
getRecommendedSkillsExcludingSelected(jobTitle) ==
    LET r == getRecommendedSkillsCaseSensitive(ToLowerCase(jobTitle))
    IN  [r EXCEPT !.core = FilterOut(r.core, Range(selectedSkills))]

getRecommendedSkills(jobTitle) ==
    IF jobTitle = "" THEN NoSkills
    ELSE
    LET titleLower == ToLowerCase(jobTitle)
        has(sub) == Includes(titleLower, sub)
        exact == {i \in DOMAIN roleSkillMapping : has(roleSkillMapping[i].role)}
    IN  IF exact # {}
        THEN SkillsOf(roleSkillMapping[CHOOSE i \in exact : \A j \in exact : i <= j])
        ELSE IF has("scientist") THEN SkillsOfRole("data scientist")
        ELSE IF has("engineer") /\ has("ml") THEN SkillsOfRole("ml engineer")
        ELSE IF has("engineer") /\ (has("data") \/ has("etl"))
             THEN SkillsOfRole("data engineer")
        ELSE IF has("analyst") THEN SkillsOfRole("data analyst")
        ELSE IF has("research") THEN SkillsOfRole("ai researcher")
        ELSE IF has("devops") \/ has("sre") THEN SkillsOfRole("devops engineer")
        ELSE IF has("product") THEN SkillsOfRole("product manager")
        ELSE IF has("backend") THEN SkillsOfRole("backend engineer")
        ELSE IF has("frontend") \/ has("react") \/ has("ui")
             THEN SkillsOfRole("frontend engineer")
        ELSE IF has("engineer") THEN SkillsOfRole("software engineer")
        ELSE NoSkills

(***************************************************************************)
(* The components at rest: the state right after construction.             *)
(***************************************************************************)
FormInit ==
    /\ formData = [jobTitle |-> "", yearsExperience |-> 0,
                   companyLocation |-> "United States",
                   companySize |-> "Medium", remoteRatio |-> 0,
                   jobDescription |-> ""]
    /\ selectedSkills = <<>>
    /\ selectedBenefits = <<>>
    /\ customSkill = ""
    /\ customBenefit = ""
    /\ errors = <<>>
    /\ onPredictCall = <<>>
    /\ roleSkillMapping = ROLE_SKILL_MAPPING

PageInit ==
    /\ prediction = <<>>
    /\ isLoading = FALSE
    /\ error = <<>>
    /\ inFlight = <<>>
    /\ settled = <<>>

RouteIdle ==
    /\ routeCall = <<>>
    /\ routeReply = <<>>

PureIdle ==
    /\ pureIn = <<>>
    /\ pureOut = <<>>

HistoryIdle == autoSelections = 0

\* The dashboard's useState initial values, nothing requested yet.
AllFilters ==
    [location |-> "All", experienceLevel |-> "All", companySize |-> "All",
     salaryRange |-> "All"]

AnalyticsIdle ==
    /\ data = Null
    /\ activeTab = "overview"
    /\ filters = AllFilters
    /\ analyticsIsLoading = TRUE
    /\ analyticsError = <<>>
    /\ availableFilters = <<>>
    /\ overviewRequests = <<>>
    /\ summaryRequests = 0

(***************************************************************************)
(* PredictionForm: what a render derives from the state                    *)
(***************************************************************************)
calculatedExperienceLevel == getExperienceLevelFromYears(formData.yearsExperience)

recommendedSkills == getRecommendedSkills(formData.jobTitle)

\* The errors object {...errors, [field]: message}
WithError(errs, field, message) ==
    [f \in (DOMAIN errs) \cup {field} |-> IF f = field THEN message ELSE errs[f]]

\* errors[field] is truthy
HasError(errs, field) == field \in DOMAIN errs /\ errs[field] # ""

(***************************************************************************)
(* Form Validator                                                          *)
(***************************************************************************)
\* Each rule gives <<>> or <<message>>.
\* The title rule with the 200th character already too many.
jobTitleErrorExclusiveMax(title) ==
    IF Trim(title) = "" THEN <<"Job title is required">>
    ELSE IF Len(title) < jobTitleMinLength
    THEN <<"Job title must be at least " \o ToString(jobTitleMinLength) \o " characters">>
    ELSE IF Len(title) >= jobTitleMaxLength
    THEN <<"Job title cannot exceed " \o ToString(jobTitleMaxLength) \o " characters">>
    ELSE <<>>

jobTitleError(title) ==
    IF Trim(title) = "" THEN <<"Job title is required">>
    ELSE IF Len(title) < jobTitleMinLength
    THEN <<"Job title must be at least " \o ToString(jobTitleMinLength) \o " characters">>
    ELSE IF Len(title) > jobTitleMaxLength
    THEN <<"Job title cannot exceed " \o ToString(jobTitleMaxLength) \o " characters">>
    ELSE <<>>

\* The years rule with its upper bound forgotten.
yearsExperienceErrorNoMax(years) ==
    IF years < yearsExperienceMin
    THEN <<"Years of experience cannot be negative">>
    ELSE <<>>

yearsExperienceError(years) ==
    IF years < yearsExperienceMin
    THEN <<"Years of experience cannot be negative">>
    ELSE IF years > yearsExperienceMax
    THEN <<"Years of experience cannot exceed " \o ToString(yearsExperienceMax)>>
    ELSE <<>>

requiredSkillsError(skills) ==
    IF Len(skills) > requiredSkillsMaxItems
    THEN <<"Cannot select more than " \o ToString(requiredSkillsMaxItems) \o " skills">>
    ELSE <<>>

benefitsError(benefits) ==
    IF Len(benefits) > benefitsMaxItems
    THEN <<"Cannot select more than " \o ToString(benefitsMaxItems) \o " benefits">>
    ELSE <<>>

jobDescriptionError(description) ==
    IF description # "" /\ Len(description) > jobDescriptionMaxLength
    THEN <<"Job description cannot exceed " \o ToString(jobDescriptionMaxLength)
           \o " characters">>
    ELSE <<>>

\* validateForm that stops at the first rule that gives a message.
validateFormFirstErrorOnly(fd, skills, benefits) ==
    LET rule == <<<<"jobTitle", jobTitleError(fd.jobTitle)>>,
                  <<"yearsExperience", yearsExperienceError(fd.yearsExperience)>>,
                  <<"requiredSkills", requiredSkillsError(skills)>>,
                  <<"benefits", benefitsError(benefits)>>,
                  <<"jobDescription", jobDescriptionError(fd.jobDescription)>>>>
        failed == {i \in DOMAIN rule : rule[i][2] # <<>>}
    IN  IF failed = {} THEN <<>>
        ELSE LET i == CHOOSE k \in failed : \A j \in failed : k <= j
             IN  [f \in {rule[i][1]} |-> rule[i][2][1]]

\* newErrors of validateForm: a key for every rule that gave a message.
validateForm(fd, skills, benefits) ==
    LET rule == [jobTitle |-> jobTitleError(fd.jobTitle),
                 yearsExperience |-> yearsExperienceError(fd.yearsExperience),
                 requiredSkills |-> requiredSkillsError(skills),
                 benefits |-> benefitsError(benefits),
                 jobDescription |-> jobDescriptionError(fd.jobDescription)]
    IN  [f \in {g \in DOMAIN rule : rule[g] # <<>>} |-> rule[f][1]]

(***************************************************************************)
(* PredictionForm: the handlers                                            *)
(***************************************************************************)
\* The auto-select effect (deps: jobTitle, recommendedSkills.core): the
\* selection it leaves, given the title of the render it runs after.
AutoSelectEffectAlways(title, skills) ==
    LET core == getRecommendedSkills(title).core
    IN  IF title # "" /\ Len(core) > 0 THEN SliceTo(core, 4) ELSE skills

AutoSelectEffect(title, skills) ==
    LET core == getRecommendedSkills(title).core
    IN  IF title # "" /\ Len(skills) = 0 /\ Len(core) > 0
        THEN SliceTo(core, 4)
        ELSE skills

\* onChange of the job title input, and the effect that the new title triggers.
SetJobTitle(value) ==
    /\ formData' = [formData EXCEPT !.jobTitle = value]
    /\ errors' = IF HasError(errors, "jobTitle")
                 THEN WithError(errors, "jobTitle", "")
                 ELSE errors
    /\ selectedSkills' = IF value # formData.jobTitle
                         THEN AutoSelectEffect(value, selectedSkills)
                         ELSE selectedSkills
    /\ onPredictCall' = <<>>
    /\ UNCHANGED <<selectedBenefits, customSkill, customBenefit, roleSkillMapping>>

\* onChange of the years input: parseInt(e.target.value) || 0
SetYearsExperience(value) ==
    /\ formData' = [formData EXCEPT !.yearsExperience = ParseIntOrZero(value)]
    /\ errors' = IF HasError(errors, "yearsExperience")
                 THEN WithError(errors, "yearsExperience", "")
                 ELSE errors
    /\ onPredictCall' = <<>>
    /\ UNCHANGED <<selectedSkills, selectedBenefits, customSkill, customBenefit, roleSkillMapping>>

\* onChange of the company size select
SetCompanySize(value) ==
    /\ formData' = [formData EXCEPT !.companySize = value]
    /\ onPredictCall' = <<>>
    /\ UNCHANGED <<selectedSkills, selectedBenefits, customSkill, customBenefit, errors, roleSkillMapping>>

\* onChange of the job description textarea
SetJobDescription(value) ==
    /\ formData' = [formData EXCEPT !.jobDescription = value]
    /\ errors' = IF HasError(errors, "jobDescription")
                 THEN WithError(errors, "jobDescription", "")
                 ELSE errors
    /\ onPredictCall' = <<>>
    /\ UNCHANGED <<selectedSkills, selectedBenefits, customSkill, customBenefit, roleSkillMapping>>

SetCustomSkill(value) ==
    /\ customSkill' = value
    /\ onPredictCall' = <<>>
    /\ UNCHANGED <<formData, selectedSkills, selectedBenefits, customBenefit, errors, roleSkillMapping>>

SetCustomBenefit(value) ==
    /\ customBenefit' = value
    /\ onPredictCall' = <<>>
    /\ UNCHANGED <<formData, selectedSkills, selectedBenefits, customSkill, errors, roleSkillMapping>>

addCustomSkill ==
    LET skill == Trim(customSkill)
    IN  /\ IF /\ skill # ""
              /\ ~ArrayIncludes(selectedSkills, skill)
              /\ Len(selectedSkills) < requiredSkillsMaxItems
           THEN /\ selectedSkills' = Append(selectedSkills, skill)
                /\ customSkill' = ""
           ELSE UNCHANGED <<selectedSkills, customSkill>>
        /\ onPredictCall' = <<>>
        /\ UNCHANGED <<formData, selectedBenefits, customBenefit, errors, roleSkillMapping>>

addCustomBenefit ==
    LET benefit == Trim(customBenefit)
    IN  /\ IF /\ benefit # ""
              /\ ~ArrayIncludes(selectedBenefits, benefit)
              /\ Len(selectedBenefits) < benefitsMaxItems
           THEN /\ selectedBenefits' = Append(selectedBenefits, benefit)
                /\ customBenefit' = ""
           ELSE UNCHANGED <<selectedBenefits, customBenefit>>
        /\ onPredictCall' = <<>>
        /\ UNCHANGED <<formData, selectedSkills, customSkill, errors, roleSkillMapping>>

\* The updater of toggleSkill / toggleBenefit
Toggled(prev, item, maxItems) ==
    IF ArrayIncludes(prev, item) THEN FilterOut(prev, {item})
    ELSE IF Len(prev) < maxItems THEN Append(prev, item)
    ELSE prev

toggleSkill(skill) ==
    /\ selectedSkills' = Toggled(selectedSkills, skill, requiredSkillsMaxItems)
    /\ onPredictCall' = <<>>
    /\ UNCHANGED <<formData, selectedBenefits, customSkill, customBenefit, errors, roleSkillMapping>>

toggleBenefit(benefit) ==
    /\ selectedBenefits' = Toggled(selectedBenefits, benefit, benefitsMaxItems)
    /\ onPredictCall' = <<>>
    /\ UNCHANGED <<formData, selectedSkills, customSkill, customBenefit, errors, roleSkillMapping>>

\* An 'Add All Essential' that adds the missing core skills whatever the
\* number of skills selected.
AddAllEssentialUnlimited ==
    LET core == recommendedSkills.core
    IN  /\ Len(core) > 0
        /\ ~(Range(core) \subseteq Range(selectedSkills))
        /\ selectedSkills' = selectedSkills \o FilterOut(core, Range(selectedSkills))
        /\ onPredictCall' = <<>>
        /\ UNCHANGED <<formData, selectedBenefits, customSkill, customBenefit, errors, roleSkillMapping>>

\* "+ Add All Essential": rendered when there is a core recommendation,
\* disabled when every core skill is selected.
AddAllEssential ==
    LET core == recommendedSkills.core
        missing == FilterOut(core, Range(selectedSkills))
        coreSkills == IF Len(selectedSkills) + Len(missing) <= requiredSkillsMaxItems
                      THEN missing
                      ELSE <<>>
    IN  /\ Len(core) > 0
        /\ ~(Range(core) \subseteq Range(selectedSkills))
        /\ selectedSkills' = selectedSkills \o coreSkills
        /\ onPredictCall' = <<>>
        /\ UNCHANGED <<formData, selectedBenefits, customSkill, customBenefit, errors, roleSkillMapping>>

\* "- Remove All Recommended": disabled when no core skill is selected.
RemoveAllRecommended ==
    LET r == recommendedSkills
    IN  /\ Len(r.core) > 0
        /\ Range(r.core) \cap Range(selectedSkills) # {}
        /\ selectedSkills' = FilterOut(selectedSkills,
                                 Range(r.core) \cup Range(r.advanced) \cup Range(r.tools))
        /\ onPredictCall' = <<>>
        /\ UNCHANGED <<formData, selectedBenefits, customSkill, customBenefit, errors, roleSkillMapping>>

\* The payload of handleSubmit, with the tier of the mount-time years.
submissionDataStale ==
    [jobTitle |-> formData.jobTitle,
     yearsExperience |-> formData.yearsExperience,
     companyLocation |-> formData.companyLocation,
     companySize |-> formData.companySize,
     remoteRatio |-> formData.remoteRatio,
     jobDescription |-> formData.jobDescription,
     experienceLevel |-> getExperienceLevelFromYears(0),
     requiredSkills |-> selectedSkills,
     benefits |-> selectedBenefits]

\* {...formData, experienceLevel, requiredSkills, benefits}
submissionData ==
    [jobTitle |-> formData.jobTitle,
     yearsExperience |-> formData.yearsExperience,
     companyLocation |-> formData.companyLocation,
     companySize |-> formData.companySize,
     remoteRatio |-> formData.remoteRatio,
     jobDescription |-> formData.jobDescription,
     experienceLevel |-> calculatedExperienceLevel,
     requiredSkills |-> selectedSkills,
     benefits |-> selectedBenefits]

\* A submit button that is never disabled.
SubmitNeverDisabled == FALSE

\* <button type='submit' disabled={isLoading}>
SubmitDisabled == isLoading

\* The submit button is disabled while isLoading.  (The browser's own
\* constraint validation of the required/min/max attributes is not modelled:
\* validateForm is the form's guard.)
handleSubmit ==
    LET newErrors == validateForm(formData, selectedSkills, selectedBenefits)
    IN  /\ ~SubmitDisabled
        /\ errors' = newErrors
        /\ onPredictCall' = IF DOMAIN newErrors = {} THEN <<submissionData>> ELSE <<>>
        /\ UNCHANGED <<formData, selectedSkills, selectedBenefits, customSkill, customBenefit, roleSkillMapping>>

(***************************************************************************)
(* The form under edits of its fields and submissions                      *)
(***************************************************************************)
FormTitles ==
    {"", " ", "a", "QA", "ML Engineer",
     Repeat("x", jobTitleMaxLength), Repeat("x", jobTitleMaxLength + 1)}
FormYears == {"", "-1", "2", "3", "11", "50", "51"}
FormDescriptions ==
    {"", Repeat("d", jobDescriptionMaxLength), Repeat("d", jobDescriptionMaxLength + 1)}
FormSkillClicks == {"Python"}
FormBenefitClicks == {"Remote Work"}

InitForm == FormInit /\ PageInit /\ AnalyticsIdle /\ HistoryIdle /\ RouteIdle /\ PureIdle

NextForm ==
    /\ \/ \E v \in FormTitles : SetJobTitle(v)
       \/ \E v \in FormYears : SetYearsExperience(v)
       \/ \E v \in FormDescriptions : SetJobDescription(v)
       \/ \E k \in FormSkillClicks : toggleSkill(k)
       \/ \E b \in FormBenefitClicks : toggleBenefit(b)
       \/ handleSubmit
    /\ UNCHANGED <<pageVars, routeVars, pureVars, analyticsVars, historyVars>>

SpecForm == InitForm /\ [][NextForm]_vars

\* C2: every payload that handleSubmit passes to onPredict carries the tier
\* of that payload's own yearsExperience (by the table of tiers, whatever
\* the years were earlier), and the stored form data has no experienceLevel
\* field that an edit could set.
C2_PayloadTierDerived ==
    /\ "experienceLevel" \notin DOMAIN formData
    /\ onPredictCall # <<>> =>
          /\ onPredictCall[1].yearsExperience = formData.yearsExperience
          /\ onPredictCall[1].yearsExperience \in 0..50
          /\ onPredictCall[1].experienceLevel
                = (CASE onPredictCall[1].yearsExperience \in 0..2 -> "Entry Level"
                     [] onPredictCall[1].yearsExperience \in 3..5 -> "Mid Level"
                     [] onPredictCall[1].yearsExperience \in 6..10 -> "Senior Level"
                     [] onPredictCall[1].yearsExperience \in 11..50 -> "Executive")

\* A payload submitted with 11 years, after the years had been edited.
C2_Witness ==
    /\ onPredictCall # <<>>
    /\ onPredictCall[1].yearsExperience = 11
    /\ onPredictCall[1].experienceLevel = "Executive"

\* C3: handleSubmit calls onPredict only when validateForm found no violated
\* constraint, so every payload that reaches onPredict has a title of 2..200
\* characters, years in [0,50], at most 20 skills, at most 15 benefits and a
\* description of at most 10000 characters.
C3_ValidatedPayloadOnly ==
    onPredictCall # <<>> =>
        /\ DOMAIN errors = {}
        /\ Len(onPredictCall[1].jobTitle) >= 2
        /\ Len(onPredictCall[1].jobTitle) <= 200
        /\ onPredictCall[1].yearsExperience >= 0
        /\ onPredictCall[1].yearsExperience <= 50
        /\ Len(onPredictCall[1].requiredSkills) <= 20
        /\ Len(onPredictCall[1].benefits) <= 15
        /\ Len(onPredictCall[1].jobDescription) <= 10000

\* A payload at the upper limits of title, years and description.
C3_Witness ==
    /\ onPredictCall # <<>>
    /\ Len(onPredictCall[1].jobTitle) = 200
    /\ onPredictCall[1].yearsExperience = 50
    /\ Len(onPredictCall[1].jobDescription) = 10000

\* A submission that validateForm blocked: errors set, onPredict not called.
C3_WitnessBlocked ==
    /\ onPredictCall = <<>>
    /\ "yearsExperience" \in DOMAIN errors
    /\ errors["yearsExperience"] = "Years of experience cannot exceed 50"

(***************************************************************************)
(* HTTP: what a fetch gives                                                *)
(***************************************************************************)
\* A body is text that JSON.parse rejects, or the JSON value it parses to.
TextBody(text) == [kind |-> "text", text |-> text]
JsonBody(value) == [kind |-> "json", value |-> value]

\* A fetch either rejects (network failure) with a TypeError of some message
\* or resolves to a response.
Rejected(message) == [kind |-> "reject", message |-> message]
Responded(status, statusText, contentType, body) ==
    [kind |-> "response", status |-> status, statusText |-> statusText,
     contentType |-> contentType, body |-> body]

\* Response.ok
Ok(response) == response.status >= 200 /\ response.status <= 299

\* response.json() resolves (otherwise it rejects with a SyntaxError)
JsonParses(response) == response.body.kind = "json"

(***************************************************************************)
(* POST /api/predict (the Next.js route handler)                           *)
(***************************************************************************)
\* NextResponse.json(body, {status})
NextResponseJson(body, status) == [status |-> status, body |-> body]

mockResult ==
    Obj([predictedSalary |-> Num(115000),
         confidenceInterval |-> Obj([lower |-> Num(92481), upper |-> Num(137519)]),
         similarJobs |-> Num(347),
         marketPosition |-> Str("Average"),
         factors |-> Arr(<< Obj([name |-> Str("Service Unavailable"),
                                 impact |-> Num(0),
                                 description |-> Str("Using fallback prediction - Flask backend not available")]) >>)])

\* A catch block that answers 500 with an error body instead of the mock.
RouteCatchAnswersError ==
    NextResponseJson(Obj([error |-> Str("Prediction failed")]), 500)

\* The catch block: whatever was thrown, answer 200 with the mock result.
RouteCatch == NextResponseJson(mockResult, 200)

\* The replies POST can give to a call [requestParses, backend].  Serializing
\* an undefined result.data either throws inside NextResponse.json (and the
\* catch block answers) or gives an empty 200 body, by the framework version.
PostReplies(call) ==
    IF ~call.requestParses THEN {RouteCatch}
    ELSE IF call.backend.kind = "reject" THEN {RouteCatch}
    ELSE LET response == call.backend
             parsed == response.body.value
         IN  IF ~Ok(response)
             THEN IF ~JsonParses(response) THEN {RouteCatch}
                  ELSE IF ~CanRead(parsed) THEN {RouteCatch}
                  ELSE {NextResponseJson(
                          Obj([error |-> OrElse(Get(parsed, "error"), Str("Prediction failed")),
                               message |-> OrElse(Get(parsed, "message"),
                                                  Str("Unknown error occurred"))]),
                          response.status)}
             ELSE IF ~JsonParses(response) THEN {RouteCatch}
                  ELSE IF ~CanRead(parsed) THEN {RouteCatch}
                  ELSE IF Get(parsed, "data") = Undefined
                  THEN {RouteCatch, NextResponseJson(Undefined, 200)}
                  ELSE {NextResponseJson(Get(parsed, "data"), 200)}

POST ==
    /\ routeCall # <<>>
    /\ routeReply = <<>>
    /\ \E reply \in PostReplies(routeCall[1]) : routeReply' = <<reply>>
    /\ UNCHANGED <<routeCall, formVars, pageVars, pureVars, analyticsVars, historyVars>>

\* ---- the backend's behaviours
SomeResult ==
    Obj([predictedSalary |-> Num(125000),
         confidenceInterval |-> Obj([lower |-> Num(110000), upper |-> Num(140000)]),
         similarJobs |-> Num(12),
         marketPosition |-> Str("Above Average"),
         factors |-> Arr(<<>>)])

\* The result of another prediction.
OtherResult ==
    Obj([predictedSalary |-> Num(62000),
         confidenceInterval |-> Obj([lower |-> Num(55000), upper |-> Num(69000)]),
         similarJobs |-> Num(3),
         marketPosition |-> Str("Below Average"),
         factors |-> Arr(<<>>)])

BackendBodies ==
    {TextBody("<html>Internal Server Error</html>"),
     TextBody(""),
     JsonBody(Null),
     JsonBody(Str("down for maintenance")),
     JsonBody(Obj(<<>>)),
     JsonBody(Obj([status |-> Str("success"), data |-> SomeResult])),
     JsonBody(Obj([status |-> Str("success")])),
     JsonBody(Obj([status |-> Str("error"), message |-> Str("Model not loaded")])),
     JsonBody(Obj([status |-> Str("error"), message |-> Str("")])),
     JsonBody(Obj([error |-> Str("Bad Request"), message |-> Str("Invalid input data")])),
     JsonBody(Obj([data |-> mockResult])),
     JsonBody(SomeResult)}

BackendStatuses ==
    {<<200, "OK">>, <<400, "BAD REQUEST">>, <<500, "INTERNAL SERVER ERROR">>,
     <<503, "SERVICE UNAVAILABLE">>}

RouteBackends ==
    {Rejected("fetch failed")}
    \cup {Responded(st[1], st[2], <<"application/json">>, b) :
            st \in BackendStatuses, b \in BackendBodies}

InitRoute ==
    /\ FormInit /\ PageInit /\ AnalyticsIdle /\ HistoryIdle /\ PureIdle
    /\ routeCall \in {<<[requestParses |-> rp, backend |-> b]>> :
                        rp \in BOOLEAN, b \in RouteBackends}
    /\ routeReply = <<>>

NextRoute == POST

SpecRoute == InitRoute /\ [][NextRoute]_vars

RouteReplied == routeCall # <<>> /\ routeReply # <<>>

\* C4: when the fetch to the backend rejects, POST answers 200 with the fixed
\* degraded-mode result: predictedSalary 115000, confidenceInterval
\* {lower 92481, upper 137519} and exactly one factor, named
\* 'Service Unavailable', with impact 0.
C4_RejectedFetchGivesFallback ==
    (RouteReplied /\ routeCall[1].requestParses /\ routeCall[1].backend.kind = "reject") =>
        LET reply == routeReply[1]
        IN  /\ reply.status = 200
            /\ reply.body.t = "obj"
            /\ Get(reply.body, "predictedSalary") = Num(115000)
            /\ Get(reply.body, "confidenceInterval")
                  = Obj([lower |-> Num(92481), upper |-> Num(137519)])
            /\ Get(reply.body, "factors").t = "arr"
            /\ Len(Get(reply.body, "factors").v) = 1
            /\ Get(Get(reply.body, "factors").v[1], "name") = Str("Service Unavailable")
            /\ Get(Get(reply.body, "factors").v[1], "impact") = Num(0)

C4_Witness ==
    /\ RouteReplied
    /\ routeCall[1].requestParses
    /\ routeCall[1].backend.kind = "reject"
    /\ routeReply[1].status = 200

\* C6 (the route's part): for a non-2xx backend response, whatever its body,
\* POST answers with the backend's status and an error body, never with a
\* prediction or the fallback estimate.
C6_RouteNonOkNeverPredicts ==
    (RouteReplied /\ routeCall[1].requestParses
       /\ routeCall[1].backend.kind = "response" /\ ~Ok(routeCall[1].backend)) =>
        /\ routeReply[1].status = routeCall[1].backend.status
        /\ Get(routeReply[1].body, "error") # Undefined
        /\ Get(routeReply[1].body, "predictedSalary") = Undefined

(***************************************************************************)
(* PredictPage: handlePrediction                                           *)
(***************************************************************************)
\* The Error that the try block throws for a fetch outcome, as <<message>>,
\* or <<>> when it completes.
SyntaxErrorMessage(body) ==
    IF body.text = "" THEN "Unexpected end of JSON input"
    ELSE "Unexpected token < in JSON at position 0"

IsJsonContentType(contentType) ==
    contentType # <<>> /\ Includes(contentType[1], "application/json")

\* A try block that parses the body whatever the content-type header says.
ThrownIgnoringContentType(outcome) ==
    IF outcome.kind = "reject" THEN <<outcome.message>>
    ELSE IF ~Ok(outcome)
    THEN <<"Backend error: " \o ToString(outcome.status) \o " " \o outcome.statusText>>
    ELSE IF ~JsonParses(outcome) THEN <<SyntaxErrorMessage(outcome.body)>>
    ELSE LET result == outcome.body.value
         IN  IF ~CanRead(result)
             THEN <<"Cannot read properties of null (reading 'status')">>
             ELSE IF Get(result, "status") = Str("success") /\ Truthy(Get(result, "data"))
             THEN <<>>
             ELSE IF Get(result, "status") = Str("error")
             THEN <<OrElse(Get(result, "message"), Str("Prediction failed")).v>>
             ELSE <<>>

Thrown(outcome) ==
    IF outcome.kind = "reject" THEN <<outcome.message>>
    ELSE IF ~Ok(outcome)
    THEN <<"Backend error: " \o ToString(outcome.status) \o " " \o outcome.statusText>>
    ELSE IF ~IsJsonContentType(outcome.contentType)
    THEN <<"Backend returned non-JSON response">>
    ELSE IF ~JsonParses(outcome) THEN <<SyntaxErrorMessage(outcome.body)>>
    ELSE LET result == outcome.body.value
         IN  IF ~CanRead(result)
             THEN <<"Cannot read properties of null (reading 'status')">>
             ELSE IF Get(result, "status") = Str("success") /\ Truthy(Get(result, "data"))
             THEN <<>>
             ELSE IF Get(result, "status") = Str("error")
             THEN <<OrElse(Get(result, "message"), Str("Prediction failed")).v>>
             ELSE <<>>

\* A try block that recovers from a rejected fetch with the mock result.
PredictionSetWithFallback(outcome) ==
    IF outcome.kind = "reject" THEN <<mockResult>>
    ELSE IF Thrown(outcome) # <<>> THEN <<>>
    ELSE LET result == outcome.body.value
         IN  IF Get(result, "status") = Str("success") /\ Truthy(Get(result, "data"))
             THEN <<Get(result, "data")>>
             ELSE <<result>>

\* A try block that always unwraps result.data.
PredictionSetAlwaysUnwrapped(outcome) ==
    IF Thrown(outcome) # <<>> THEN <<>>
    ELSE <<Get(outcome.body.value, "data")>>

\* The argument of the setPrediction call of the try block, as <<value>>, or
\* <<>> when it makes none.
PredictionSet(outcome) ==
    IF Thrown(outcome) # <<>> THEN <<>>
    ELSE LET result == outcome.body.value
         IN  IF Get(result, "status") = Str("success") /\ Truthy(Get(result, "data"))
             THEN <<Get(result, "data")>>
             ELSE <<result>>

\* The catch block: the last setError for an Error of this message.
ErrorShown(message) ==
    IF Includes(message, "fetch")
    THEN "Cannot connect to prediction service. Please check if the backend is running."
    ELSE IF Includes(message, "CORS")
    THEN "CORS error. Please check backend CORS configuration."
    ELSE "Prediction failed: " \o message

\* A continuation that drops the response of every call but the newest.
HandlePredictionSettleLatestOnly(i, outcome) ==
    /\ i \in DOMAIN inFlight
    /\ prediction' = IF PredictionSet(outcome) # <<>> /\ i = Len(inFlight)
                     THEN PredictionSet(outcome)
                     ELSE prediction
    /\ error' = IF Thrown(outcome) # <<>> THEN <<ErrorShown(Thrown(outcome)[1])>>
                ELSE error
    /\ isLoading' = FALSE
    /\ inFlight' = SubSeq(inFlight, 1, i - 1) \o SubSeq(inFlight, i + 1, Len(inFlight))
    /\ settled' = <<[input |-> inFlight[i], outcome |-> outcome, before |-> prediction,
                      thrown |-> Thrown(outcome)]>>
    /\ UNCHANGED <<formVars, routeVars, pureVars, analyticsVars, historyVars>>

\* handlePrediction up to its await of fetch.
\* A call that clears the previous prediction when it starts.
HandlePredictionBeginClearing(input) ==
    /\ isLoading' = TRUE
    /\ error' = <<>>
    /\ inFlight' = Append(inFlight, input)
    /\ settled' = <<>>
    /\ prediction' = <<>>

HandlePredictionBegin(input) ==
    /\ isLoading' = TRUE
    /\ error' = <<>>
    /\ inFlight' = Append(inFlight, input)
    /\ settled' = <<>>
    /\ UNCHANGED prediction

\* The call as the only thing that happens in a step.
HandlePredictionStart(input) ==
    /\ HandlePredictionBegin(input)
    /\ UNCHANGED <<formVars, routeVars, pureVars, analyticsVars, historyVars>>

\* The rest of the call at position i, once its fetch has settled with outcome.
HandlePredictionSettle(i, outcome) ==
    /\ i \in DOMAIN inFlight
    /\ prediction' = IF PredictionSet(outcome) # <<>> THEN PredictionSet(outcome)
                     ELSE prediction
    /\ error' = IF Thrown(outcome) # <<>> THEN <<ErrorShown(Thrown(outcome)[1])>>
                ELSE error
    /\ isLoading' = FALSE
    /\ inFlight' = SubSeq(inFlight, 1, i - 1) \o SubSeq(inFlight, i + 1, Len(inFlight))
    /\ settled' = <<[input |-> inFlight[i], outcome |-> outcome, before |-> prediction,
                      thrown |-> Thrown(outcome)]>>
    /\ UNCHANGED <<formVars, routeVars, pureVars, analyticsVars, historyVars>>

\* The blocks of the results column that the page renders.
ResultsPanel ==
    LET hasPrediction == prediction # <<>> /\ Truthy(prediction[1])
        hasError == error # <<>> /\ error[1] # ""
    IN  (IF ~hasPrediction /\ ~isLoading /\ ~hasError THEN {"placeholder"} ELSE {})
        \cup (IF isLoading THEN {"loading"} ELSE {})
        \cup (IF hasError THEN {"error"} ELSE {})
        \cup (IF hasPrediction THEN {"results"} ELSE {})

\* ---- the page under calls and fetch outcomes
MaxInFlight == 2

PageInputs == {"Entry Level", "Executive"}

JsonType == <<"application/json">>

PageOutcomes ==
    {Rejected("Failed to fetch"), Rejected("Load failed"),
     Rejected("NetworkError when attempting to fetch resource.")}
    \cup {Responded(200, "OK", ct, b) :
            ct \in {<<>>, <<"text/html; charset=utf-8">>},
            b \in {TextBody("<html>It works</html>"),
                   JsonBody(Obj([status |-> Str("success"), data |-> SomeResult]))}}
    \cup {Responded(200, "OK", ct, b) :
            ct \in {JsonType, <<"application/json; charset=utf-8">>},
            b \in {JsonBody(Obj([status |-> Str("success"), data |-> SomeResult])),
                   JsonBody(SomeResult)}}
    \cup {Responded(200, "OK", JsonType, b) :
            b \in {TextBody(""),
                   JsonBody(Obj([status |-> Str("success"), data |-> OtherResult])),
                   JsonBody(Null),
                   JsonBody(Obj([status |-> Str("success")])),
                   JsonBody(Obj([status |-> Str("ok"), predictedSalary |-> Num(90000)])),
                   JsonBody(Obj([status |-> Str("error"), message |-> Str("Model not loaded")])),
                   JsonBody(Obj([status |-> Str("error"),
                                 message |-> Str("Could not fetch features")])),
                   JsonBody(Obj([status |-> Str("error")]))}}
    \cup {Responded(st[1], st[2], JsonType, b) :
            st \in {<<400, "BAD REQUEST">>, <<500, "INTERNAL SERVER ERROR">>},
            b \in {TextBody("<html>Internal Server Error</html>"),
                   JsonBody(Obj([status |-> Str("error"),
                                 message |-> Str("Invalid input data")])),
                   JsonBody(Obj([status |-> Str("success"), data |-> SomeResult]))}}

InitPage == FormInit /\ PageInit /\ AnalyticsIdle /\ HistoryIdle /\ RouteIdle /\ PureIdle

NextPage ==
    \/ \E input \in PageInputs :
          Len(inFlight) < MaxInFlight /\ HandlePredictionStart(input)
    \/ \E i \in DOMAIN inFlight, outcome \in PageOutcomes :
          HandlePredictionSettle(i, outcome)

SpecPage == InitPage /\ [][NextPage]_vars

\* The call that has just settled, and kinds of outcome it may have seen.
Settled == settled # <<>>
SettledRejected == Settled /\ settled[1].outcome.kind = "reject"
SettledNonOk ==
    Settled /\ settled[1].outcome.kind = "response" /\ ~Ok(settled[1].outcome)
SettledOk ==
    Settled /\ settled[1].outcome.kind = "response" /\ Ok(settled[1].outcome)
SettledNonJsonType == SettledOk /\ ~IsJsonContentType(settled[1].outcome.contentType)
SettledJson ==
    /\ SettledOk
    /\ IsJsonContentType(settled[1].outcome.contentType)
    /\ settled[1].outcome.body.kind = "json"

ConnectMessage ==
    "Cannot connect to prediction service. Please check if the backend is running."

C6_PageNonOkNeverPredicts ==
    SettledNonOk => (error # <<>> /\ prediction = settled[1].before)

\* C7 as stated: for a 2xx JSON response, status 'success' with a data
\* payload stores result.data; an absent or unrecognized status stores the
\* body itself; status 'error' stores nothing and fails with the provided
\* message, or 'Prediction failed' when there is none.
C7_JsonResponseHandling ==
    SettledJson =>
        LET result == settled[1].outcome.body.value
            status == Get(result, "status")
        IN  /\ (status = Str("success") /\ Truthy(Get(result, "data")))
                  => prediction = <<Get(result, "data")>>
            /\ status \notin {Str("success"), Str("error")}
                  => prediction = <<result>>
            /\ status = Str("error")
                  => /\ prediction = settled[1].before
                     /\ settled[1].thrown =
                           <<IF Truthy(Get(result, "message"))
                             THEN Get(result, "message").v
                             ELSE "Prediction failed">>

\* C7 as amended: as stated, but the body itself is stored only when it is
\* not JSON null; a null body stores nothing and the call fails.
C7_JsonResponseHandlingNonNull ==
    SettledJson =>
        LET result == settled[1].outcome.body.value
            status == Get(result, "status")
        IN  /\ (status = Str("success") /\ Truthy(Get(result, "data")))
                  => prediction = <<Get(result, "data")>>
            /\ (result # Null /\ status \notin {Str("success"), Str("error")})
                  => prediction = <<result>>
            /\ result = Null
                  => (prediction = settled[1].before /\ error # <<>>)
            /\ status = Str("error")
                  => /\ prediction = settled[1].before
                     /\ settled[1].thrown =
                           <<IF Truthy(Get(result, "message"))
                             THEN Get(result, "message").v
                             ELSE "Prediction failed">>

\* A body with no status field was stored as the prediction.
C7_Witness ==
    /\ SettledJson
    /\ settled[1].outcome.body.value = SomeResult
    /\ prediction = <<SomeResult>>
    /\ settled[1].before = <<>>

\* C8: a 2xx response whose content-type is missing or lacks
\* 'application/json' is not parsed: the call fails with 'Backend returned
\* non-JSON response', an error unlike that of any non-2xx status, and
\* prediction is unchanged.
C8_NonJsonContentTypeFails ==
    SettledNonJsonType =>
        /\ settled[1].thrown = <<"Backend returned non-JSON response">>
        /\ error = <<"Prediction failed: Backend returned non-JSON response">>
        /\ prediction = settled[1].before
        /\ \A o \in PageOutcomes :
              (o.kind = "response" /\ ~Ok(o)) =>
                 /\ Thrown(o) # settled[1].thrown
                 /\ <<ErrorShown(Thrown(o)[1])>> # error

\* A 2xx text/html response carrying a well-formed success body: not stored.
C8_Witness ==
    /\ SettledNonJsonType
    /\ settled[1].outcome.contentType = <<"text/html; charset=utf-8">>
    /\ settled[1].outcome.body.kind = "json"
    /\ prediction = <<>>
    /\ error = <<"Prediction failed: Backend returned non-JSON response">>

\* The message the service supplied with an error, as <<message>>.
ServiceMessage(outcome) ==
    IF outcome.kind = "response" /\ outcome.body.kind = "json"
         /\ Truthy(Get(outcome.body.value, "message"))
         /\ (~Ok(outcome)
               \/ (IsJsonContentType(outcome.contentType)
                     /\ Get(outcome.body.value, "status") = Str("error")))
    THEN <<Get(outcome.body.value, "message").v>>
    ELSE <<>>

\* C9: whenever the service supplies an error message (in a non-2xx body or
\* in a 2xx body with status 'error') the error shown contains that message
\* unchanged.
C9_ServiceMessageShown ==
    (Settled /\ ServiceMessage(settled[1].outcome) # <<>>) =>
        /\ error # <<>>
        /\ Includes(error[1], ServiceMessage(settled[1].outcome)[1])

\* ---- calls in flight together
\* A response that succeeds: 2xx, JSON, status 'success' and a data payload.
Succeeds(outcome) ==
    /\ outcome.kind = "response" /\ Ok(outcome)
    /\ IsJsonContentType(outcome.contentType) /\ outcome.body.kind = "json"
    /\ outcome.body.value \in {Obj([status |-> Str("success"), data |-> r]) :
                                  r \in {SomeResult, OtherResult}}

CallStarts == Len(inFlight') > Len(inFlight)
CallSettles == Len(inFlight') < Len(inFlight)

\* C27: a call that starts leaves the calls in flight where they are (none
\* is cancelled or merged), and every call that succeeds, whatever its
\* position among the calls in flight, sets prediction to its own payload:
\* of two calls in flight the one that resolves last determines prediction,
\* the older call's late response overwriting the newer call's result.
C27_LastResolvedWins ==
    /\ [][CallStarts => SubSeq(inFlight', 1, Len(inFlight)) = inFlight
                        /\ Len(inFlight') = Len(inFlight) + 1]_vars
    /\ [][CallSettles =>
            /\ Len(inFlight') = Len(inFlight) - 1
            /\ settled' # <<>>
            /\ Succeeds(settled'[1].outcome) =>
                  prediction' = <<Get(settled'[1].outcome.body.value, "data")>>
            /\ (/\ inFlight = <<"Entry Level", "Executive">>
                /\ inFlight' = <<>>
                /\ Succeeds(settled'[1].outcome)) =>
                  prediction' # <<>> /\ isLoading' = FALSE]_vars

\* Two calls were in flight; the newer one resolved first with one result
\* and the older one then with the other, which is the one displayed.
C27_Witness ==
    /\ inFlight = <<>>
    /\ settled # <<>>
    /\ settled[1].input = "Entry Level"
    /\ settled[1].before = <<OtherResult>>
    /\ Succeeds(settled[1].outcome)
    /\ prediction = <<SomeResult>>

\* The newer call has resolved, the older one is still in flight.
C27_WitnessOlderPending ==
    /\ inFlight = <<"Entry Level">>
    /\ settled # <<>>
    /\ settled[1].input = "Executive"
    /\ prediction = <<OtherResult>>
    /\ ~isLoading

\* ---- the prediction across later requests
\* The response is one that handlePrediction accepts: 2xx, a JSON content
\* type, a body that parses, and no status 'error' in it.
Accepted(outcome) ==
    /\ outcome.kind = "response" /\ outcome.status \in 200..299
    /\ IsJsonContentType(outcome.contentType)
    /\ outcome.body.kind = "json"
    /\ outcome.body.value # Null
    /\ Get(outcome.body.value, "status") # Str("error")

\* C29: prediction is unchanged by the start of a call and by a call that
\* fails; it changes only in the step of a call that settles with an
\* accepted response; it is never set back to null; and a prediction that
\* is set is rendered whatever isLoading and error are, beside the loading
\* block while a later request is in flight and beside the error block
\* after a later request has failed.
C29_PredictionKeptUntilSuccess ==
    /\ [][CallStarts => prediction' = prediction]_vars
    /\ [][(CallSettles /\ ~Accepted(settled'[1].outcome)) =>
            (prediction' = prediction /\ "error" \in ResultsPanel')]_vars
    /\ [][prediction' # prediction =>
            (CallSettles /\ Accepted(settled'[1].outcome) /\ prediction' # <<>>)]_vars
    /\ [](prediction \in {<<SomeResult>>, <<OtherResult>>} =>
            /\ "results" \in ResultsPanel
            /\ isLoading => {"results", "loading"} \subseteq ResultsPanel
            /\ error # <<>> => {"results", "error"} \subseteq ResultsPanel)

\* A later request has failed: the earlier prediction beside the error.
C29_Witness ==
    /\ settled # <<>> /\ settled[1].thrown # <<>>
    /\ settled[1].before = <<SomeResult>>
    /\ prediction = <<SomeResult>>
    /\ inFlight = <<>>
    /\ ResultsPanel = {"results", "error"}

\* A later request is loading: the earlier prediction beside the spinner.
C29_WitnessLoading ==
    /\ prediction = <<OtherResult>>
    /\ Len(inFlight) = 1 /\ isLoading /\ settled = <<>>
    /\ ResultsPanel = {"results", "loading"}

(***************************************************************************)
(* MarketAnalyticsDashboard: what a render derives from the state          *)
(***************************************************************************)
\* data.metadata.filteredRecords
filteredRecords == Get(Get(data, "metadata"), "filteredRecords")

\* Comparisons of a JavaScript value with a number: false for undefined.
IsNumber(x) == x.t = "num"

\* hasMinimumData with 10 records not yet enough.
hasMinimumDataAboveTen ==
    IF ~Truthy(data) THEN FALSE
    ELSE IsNumber(filteredRecords) /\ filteredRecords.v > 10

hasMinimumData ==
    IF ~Truthy(data) THEN FALSE
    ELSE IsNumber(filteredRecords) /\ filteredRecords.v >= 10

hasNoData ==
    IF ~Truthy(data) THEN TRUE
    ELSE filteredRecords = Num(0)

hasInsufficientData ==
    IF ~Truthy(data) THEN FALSE
    ELSE IsNumber(filteredRecords) /\ filteredRecords.v > 0 /\ filteredRecords.v < 10

\* activeFiltersCount that looks at the location filter only.
activeFiltersCountLocationOnly ==
    Cardinality({k \in {"location"} : filters[k] # "All"})

activeFiltersCount == Cardinality({k \in DOMAIN filters : filters[k] # "All"})

\* The page shows the error view, else the loading view, else the dashboard.
AnalyticsView ==
    IF analyticsError # <<>> /\ analyticsError[1] # "" THEN "Error"
    ELSE IF analyticsIsLoading THEN "Loading"
    ELSE "Dashboard"

\* The controls that start an overview request, as the view renders them: the
\* error view has 'Retry' alone, the loading view has none, the dashboard has
\* the filter selects and chips, the reset buttons and 'Refresh Data'.
AnalyticsControls ==
    CASE AnalyticsView = "Error" -> {"Retry"}
      [] AnalyticsView = "Loading" -> {}
      [] AnalyticsView = "Dashboard" ->
            {"Filter", "Refresh Data"}
            \cup (IF activeFiltersCount > 0 THEN {"Reset Filters"} ELSE {})

\* <EmptyDataState type message suggestions />
EmptyDataState(type, message) ==
    [kind |-> type,
     title |-> IF type = "no-data" THEN "No Data Found" ELSE "Insufficient Data",
     message |-> message,
     resetAllFilters |-> activeFiltersCount > 0,
     charts |-> {}]

NullTab == [kind |-> "null", charts |-> {}]
Charts(names) == [kind |-> "charts", charts |-> names]

\* data.<series>.length > 0
NonEmpty(series) == Len(Get(data, series).v) > 0

OverviewTab ==
    IF ~Truthy(data) THEN NullTab
    ELSE IF hasNoData
    THEN EmptyDataState("no-data",
           "Your current filter combination doesn't match any records in our dataset.")
    ELSE IF hasInsufficientData
    THEN EmptyDataState("insufficient-data",
           "Only " \o ToString(filteredRecords.v) \o " records match your filters. "
           \o "Analytics require at least 10 records for meaningful insights.")
    ELSE Charts({c \in {<<"BarChart", "salaryDistribution">>,
                        <<"PieChart", "jobTitleData">>,
                        <<"LineChart", "trendData">>} : NonEmpty(c[2])})

\* The guard of the five other tabs.
EmptyOr(noDataMessage, insufficientMessage, charts) ==
    IF ~Truthy(data) THEN NullTab
    ELSE IF hasNoData \/ hasInsufficientData
    THEN EmptyDataState(IF hasNoData THEN "no-data" ELSE "insufficient-data",
                        IF hasNoData THEN noDataMessage ELSE insufficientMessage)
    ELSE charts

\* GeographicTab without its guard.
GeographicTabUnguarded ==
    IF ~Truthy(data) THEN NullTab
    ELSE Charts({c \in {<<"BarChart", "averageSalary by location">>,
                        <<"BarChart", "jobCount by location">>} :
                    NonEmpty("geographicData")})

GeographicTab ==
    EmptyOr("No geographic data matches your current filters.",
            "Insufficient data for meaningful geographic analysis.",
            Charts({c \in {<<"BarChart", "averageSalary by location">>,
                           <<"BarChart", "jobCount by location">>} :
                       NonEmpty("geographicData")}))

SkillsTab ==
    EmptyOr("No skills data matches your current filters.",
            "Insufficient data for meaningful skills analysis.",
            Charts({<<"BarChart", "skillsData">>, <<"ScatterChart", "skillsData">>,
                    <<"RadarChart", "skillsData">>}))

ExperienceTab ==
    EmptyOr("No experience data matches your current filters.",
            "Insufficient data for meaningful experience analysis.",
            Charts({<<"BarChart", "experienceData">>, <<"PieChart", "experienceData">>}))

CompaniesTab ==
    EmptyOr("No company data matches your current filters.",
            "Insufficient data for meaningful company analysis.",
            Charts({<<"BarChart", "averageSalary by size">>,
                    <<"BarChart", "remoteRatio by size">>}))

TrendsTab ==
    EmptyOr("No trend data matches your current filters.",
            "Insufficient data for meaningful trend analysis.",
            Charts({<<"AreaChart", "trendData">>}))

TabContent(tab) ==
    CASE tab = "overview" -> OverviewTab
      [] tab = "geographic" -> GeographicTab
      [] tab = "skills" -> SkillsTab
      [] tab = "experience" -> ExperienceTab
      [] tab = "companies" -> CompaniesTab
      [] tab = "trends" -> TrendsTab
      [] OTHER -> OverviewTab

renderTabContent == TabContent(activeTab)

(***************************************************************************)
(* MarketAnalyticsDashboard: fetchAnalyticsData and the handlers           *)
(***************************************************************************)
\* application/x-www-form-urlencoded, as URLSearchParams serializes: letters,
\* digits and *-._ stay, a space becomes +, any other byte becomes %XX.
Unreserved ==
    {SubSeq("abcdefghijklmnopqrstuvwxyzABCDEFGHIJKLMNOPQRSTUVWXYZ0123456789*-._", i, i) :
        i \in 1..66}
PercentCodes ==
    [c \in {"+", "&", "=", ",", "/", "%"} |->
        CASE c = "+" -> "%2B" [] c = "&" -> "%26" [] c = "=" -> "%3D"
          [] c = "," -> "%2C" [] c = "/" -> "%2F" [] c = "%" -> "%25"]

RECURSIVE FormUrlEncode(_)
FormUrlEncode(text) ==
    IF text = "" THEN ""
    ELSE LET c == SubSeq(text, 1, 1)
         IN  (IF c \in Unreserved THEN c ELSE IF c = " " THEN "+" ELSE PercentCodes[c])
             \o FormUrlEncode(SubSeq(text, 2, Len(text)))

\* Object.entries(filters), in the order of the keys.
FilterKeys == <<"location", "experienceLevel", "companySize", "salaryRange">>

\* params.toString() after the appends
RECURSIVE JoinParams(_)
JoinParams(pairs) ==
    IF pairs = <<>> THEN ""
    ELSE FormUrlEncode(pairs[1][1]) \o "=" \o FormUrlEncode(pairs[1][2])
         \o (IF Len(pairs) > 1 THEN "&" ELSE "") \o JoinParams(Tail(pairs))

\* The query string with a parameter for every filter, 'All' included.
QueryStringOfAll(f) ==
    JoinParams([i \in DOMAIN FilterKeys |-> <<FilterKeys[i], f[FilterKeys[i]]>>])

\* The query string fetchAnalyticsData builds from the filters.
QueryStringOf(f) ==
    LET kept == SelectSeq(FilterKeys, LAMBDA k : f[k] # "All")
    IN  JoinParams([i \in DOMAIN kept |-> <<kept[i], f[kept[i]]>>])

OverviewPath == "/api/analytics/overview?"

\* A fetchAnalyticsData that starts its request without setIsLoading(true).
FetchAnalyticsDataStartQuiet(f) ==
    /\ analyticsIsLoading' = analyticsIsLoading
    /\ analyticsError' = <<>>
    /\ overviewRequests' =
          Append(overviewRequests, [url |-> OverviewPath \o QueryStringOf(f), filters |-> f])

\* fetchAnalyticsData up to its await of fetch: the request carries the URL
\* and, for reference, the filters of the render that made the call.
FetchAnalyticsDataStart(f) ==
    /\ analyticsIsLoading' = TRUE
    /\ analyticsError' = <<>>
    /\ overviewRequests' =
          Append(overviewRequests, [url |-> OverviewPath \o QueryStringOf(f), filters |-> f])

\* The Error that the try block throws, as <<message>>, or <<>>.
AnalyticsThrown(outcome) ==
    IF outcome.kind = "reject" THEN <<outcome.message>>
    ELSE IF ~Ok(outcome)
    THEN <<"Backend error: " \o ToString(outcome.status) \o " " \o outcome.statusText>>
    ELSE IF ~JsonParses(outcome) THEN <<SyntaxErrorMessage(outcome.body)>>
    ELSE LET result == outcome.body.value
         IN  IF ~CanRead(result)
             THEN <<"Cannot read properties of null (reading 'status')">>
             ELSE IF Get(result, "status") = Str("success")
             THEN IF CanRead(Get(result, "data")) THEN <<>>
                  ELSE <<"Cannot read properties of undefined (reading 'metadata')">>
             ELSE <<OrElse(Get(result, "message"),
                           Str("Failed to load analytics data")).v>>

\* A try block that stores an empty dataset when the response is a failure.
DataSetWithFallback(outcome) ==
    IF outcome.kind = "response" /\ Ok(outcome) /\ JsonParses(outcome)
       /\ CanRead(outcome.body.value)
       /\ Get(outcome.body.value, "status") = Str("success")
    THEN <<Get(outcome.body.value, "data")>>
    ELSE <<Obj([metadata |-> Obj([filteredRecords |-> Num(0), totalRecords |-> Num(0)])])>>

\* The argument of setData, as <<value>>, or <<>> when it is not called.
DataSet(outcome) ==
    IF outcome.kind = "response" /\ Ok(outcome) /\ JsonParses(outcome)
       /\ CanRead(outcome.body.value)
       /\ Get(outcome.body.value, "status") = Str("success")
    THEN <<Get(outcome.body.value, "data")>>
    ELSE <<>>

\* A continuation whose setIsLoading(false) is at the end of the try block.
FetchAnalyticsDataSettleNoFinally(i, outcome) ==
    /\ i \in DOMAIN overviewRequests
    /\ data' = IF DataSet(outcome) # <<>> THEN DataSet(outcome)[1] ELSE data
    /\ analyticsError' = IF AnalyticsThrown(outcome) # <<>> THEN AnalyticsThrown(outcome)
                         ELSE analyticsError
    /\ analyticsIsLoading' = IF AnalyticsThrown(outcome) # <<>> THEN analyticsIsLoading
                             ELSE FALSE
    /\ overviewRequests' = SubSeq(overviewRequests, 1, i - 1)
                           \o SubSeq(overviewRequests, i + 1, Len(overviewRequests))
    /\ UNCHANGED <<activeTab, filters, availableFilters, summaryRequests>>

\* The rest of the call at position i, once its fetch has settled.
FetchAnalyticsDataSettle(i, outcome) ==
    /\ i \in DOMAIN overviewRequests
    /\ data' = IF DataSet(outcome) # <<>> THEN DataSet(outcome)[1] ELSE data
    /\ analyticsError' = IF AnalyticsThrown(outcome) # <<>> THEN AnalyticsThrown(outcome)
                         ELSE analyticsError
    /\ analyticsIsLoading' = FALSE
    /\ overviewRequests' = SubSeq(overviewRequests, 1, i - 1)
                           \o SubSeq(overviewRequests, i + 1, Len(overviewRequests))
    /\ UNCHANGED <<activeTab, filters, availableFilters, summaryRequests>>

\* The two mount effects: fetchAnalyticsData() and fetchFilterOptions().
MountEffects ==
    /\ analyticsIsLoading /\ overviewRequests = <<>> /\ summaryRequests = 0
    /\ data = Null /\ analyticsError = <<>> /\ availableFilters = <<>>
    /\ FetchAnalyticsDataStart(filters)
    /\ summaryRequests' = 1
    /\ UNCHANGED <<data, activeTab, filters, availableFilters>>

\* fetchFilterOptions once its fetch has settled.
FetchFilterOptionsSettle(outcome) ==
    /\ summaryRequests > 0
    /\ summaryRequests' = summaryRequests - 1
    /\ availableFilters' =
          IF outcome.kind = "response" /\ Ok(outcome) /\ JsonParses(outcome)
             /\ CanRead(outcome.body.value)
             /\ Get(outcome.body.value, "status") = Str("success")
          THEN <<Get(outcome.body.value, "data")>>
          ELSE availableFilters
    /\ UNCHANGED <<data, activeTab, filters, analyticsIsLoading, analyticsError,
                   overviewRequests>>

\* The options of a filter's select: 'All' and the keys of the data-summary.
FilterOptions(filterName) ==
    LET summaryKey == [location |-> "locations", experienceLevel |-> "experienceLevels",
                       companySize |-> "companySizes"]
    IN  {"All"} \cup
        (IF filterName = "salaryRange" THEN {"50k-100k", "100k-150k", "150k+"}
         ELSE IF availableFilters = <<>> THEN {}
         ELSE ObjectKeys(Get(availableFilters[1], summaryKey[filterName])))

\* handleFilterChange through a select or the x of an active-filter chip,
\* and the effect that the new filters trigger.
handleFilterChange(filterName, value) ==
    /\ "Filter" \in AnalyticsControls
    /\ value \in FilterOptions(filterName)
    /\ value # filters[filterName]
    /\ filters' = [filters EXCEPT ![filterName] = value]
    /\ FetchAnalyticsDataStart(filters')
    /\ UNCHANGED <<data, activeTab, availableFilters, summaryRequests>>

\* resetFilters through 'Reset Filters' (disabled without an active filter)
\* or 'Reset All Filters' of the empty state, and the effect.
resetFilters ==
    /\ "Reset Filters" \in AnalyticsControls
    /\ filters' = AllFilters
    /\ FetchAnalyticsDataStart(filters')
    /\ UNCHANGED <<data, activeTab, availableFilters, summaryRequests>>

\* 'Refresh Data'
RefreshData ==
    /\ "Refresh Data" \in AnalyticsControls
    /\ FetchAnalyticsDataStart(filters)
    /\ UNCHANGED <<data, activeTab, filters, availableFilters, summaryRequests>>

\* 'Retry' of the error view
Retry ==
    /\ "Retry" \in AnalyticsControls
    /\ FetchAnalyticsDataStart(filters)
    /\ UNCHANGED <<data, activeTab, filters, availableFilters, summaryRequests>>

setActiveTab(tab) ==
    /\ AnalyticsView = "Dashboard"
    /\ activeTab' = tab
    /\ UNCHANGED <<data, filters, analyticsIsLoading, analyticsError, availableFilters,
                   overviewRequests, summaryRequests>>

\* ---- the dashboard under its controls and the outcomes of its fetches
SeriesNames ==
    {"salaryDistribution", "geographicData", "experienceData", "skillsData",
     "companySizeData", "trendData", "jobTitleData"}

\* An AnalyticsData whose series are one row long, but for the empty ones.
AnalyticsData(filtered, total, empty) ==
    Obj([f \in SeriesNames \cup {"metadata"} |->
            IF f = "metadata"
            THEN Obj([filteredRecords |-> Num(filtered), totalRecords |-> Num(total)])
            ELSE IF f \in empty THEN Arr(<<>>) ELSE Arr(<<Str("row")>>)])

TotalRecords == 250
FilteredCounts == {0, 1, 9, 10, 11, TotalRecords}

OverviewOutcomes ==
    {Rejected("Failed to fetch"),
     Responded(500, "INTERNAL SERVER ERROR", JsonType,
               TextBody("<html>Internal Server Error</html>")),
     Responded(200, "OK", JsonType,
               JsonBody(Obj([status |-> Str("error"), message |-> Str("Dataset not loaded")]))),
     Responded(404, "NOT FOUND", JsonType,
               JsonBody(Obj([status |-> Str("success"),
                             data |-> AnalyticsData(10, TotalRecords, {})]))),
     Responded(200, "OK", JsonType, JsonBody(Obj([status |-> Str("error")]))),
     Responded(200, "OK", JsonType, JsonBody(Obj([message |-> Str("no status")]))),
     Responded(200, "OK", JsonType, TextBody("<html>It works</html>")),
     Responded(200, "OK", JsonType, JsonBody(Obj([status |-> Str("success")])))}
    \cup {Responded(200, "OK", JsonType,
                    JsonBody(Obj([status |-> Str("success"),
                                  data |-> AnalyticsData(n, TotalRecords, {})]))) :
            n \in FilteredCounts}
    \cup {Responded(200, "OK", JsonType,
                    JsonBody(Obj([status |-> Str("success"),
                                  data |-> AnalyticsData(n, TotalRecords, SeriesNames)]))) :
            n \in {0, 10}}
    \cup {Responded(200, "OK", JsonType,
                    JsonBody(Obj([status |-> Str("success"),
                                  data |-> AnalyticsData(10, TotalRecords, {e})]))) :
            e \in {"trendData", "geographicData"}}

DataSummary ==
    Obj([locations |-> Obj(("United States" :> Num(200)) @@ ("A&B" :> Num(50))),
         experienceLevels |-> Obj([Senior |-> Num(120)]),
         companySizes |-> Obj([Large |-> Num(80)])])

SummaryOutcomes ==
    {Rejected("Failed to fetch"),
     Responded(200, "OK", JsonType,
               JsonBody(Obj([status |-> Str("success"), data |-> DataSummary])))}

Tabs == {"overview", "geographic", "skills", "experience", "companies", "trends"}

InitAnalytics == FormInit /\ PageInit /\ AnalyticsIdle /\ HistoryIdle /\ RouteIdle /\ PureIdle

NextAnalytics ==
    /\ \/ MountEffects
       \/ \E i \in DOMAIN overviewRequests, o \in OverviewOutcomes :
             FetchAnalyticsDataSettle(i, o)
       \/ \E o \in SummaryOutcomes : FetchFilterOptionsSettle(o)
       \/ \E k \in DOMAIN filters, v \in UNION {FilterOptions(n) : n \in DOMAIN filters} :
             handleFilterChange(k, v)
       \/ resetFilters
       \/ RefreshData
       \/ Retry
       \/ \E t \in Tabs : setActiveTab(t)
    /\ UNCHANGED <<formVars, pageVars, routeVars, pureVars, historyVars>>

SpecAnalytics == InitAnalytics /\ [][NextAnalytics]_vars

\* Analytics data is loaded and its filteredRecords is this number.
Loaded(n) == Truthy(data) /\ filteredRecords = Num(n)
LoadedCount == Truthy(data) /\ IsNumber(filteredRecords) /\ filteredRecords.v >= 0

\* C17: for loaded data with a non-negative filteredRecords exactly one of
\* hasNoData, hasInsufficientData, hasMinimumData holds: the first iff the
\* count is 0, the second iff it is in 1..9, the third iff it is >= 10.
C17_ExactlyOneClassification ==
    LoadedCount =>
        /\ hasNoData <=> filteredRecords.v = 0
        /\ hasInsufficientData <=> filteredRecords.v \in 1..9
        /\ hasMinimumData <=> filteredRecords.v >= 10
        /\ Cardinality({c \in {"no", "insufficient", "minimum"} :
                           CASE c = "no" -> hasNoData
                             [] c = "insufficient" -> hasInsufficientData
                             [] c = "minimum" -> hasMinimumData}) = 1

\* 10 records are sufficient, 9 are not.
C17_Witness == Loaded(10) /\ hasMinimumData /\ ~hasInsufficientData /\ ~hasNoData
C17_WitnessNine == Loaded(9) /\ hasInsufficientData /\ ~hasMinimumData /\ ~hasNoData

\* The charts of a tab.
FullChartSet(tab) ==
    CASE tab = "overview" -> {<<"BarChart", "salaryDistribution">>,
                              <<"PieChart", "jobTitleData">>, <<"LineChart", "trendData">>}
      [] tab = "geographic" -> {<<"BarChart", "averageSalary by location">>,
                                <<"BarChart", "jobCount by location">>}
      [] tab = "skills" -> {<<"BarChart", "skillsData">>, <<"ScatterChart", "skillsData">>,
                            <<"RadarChart", "skillsData">>}
      [] tab = "experience" -> {<<"BarChart", "experienceData">>,
                                <<"PieChart", "experienceData">>}
      [] tab = "companies" -> {<<"BarChart", "averageSalary by size">>,
                               <<"BarChart", "remoteRatio by size">>}
      [] tab = "trends" -> {<<"AreaChart", "trendData">>}

NoDataMessages ==
    {"Your current filter combination doesn't match any records in our dataset.",
     "No geographic data matches your current filters.",
     "No skills data matches your current filters.",
     "No experience data matches your current filters.",
     "No company data matches your current filters.",
     "No trend data matches your current filters."}

\* No chart below 10 records, and the two guidances, in every tab.
GuidanceBelowTen ==
    \A tab \in Tabs :
        /\ Loaded(0) => /\ TabContent(tab).kind = "no-data"
                        /\ TabContent(tab).title = "No Data Found"
                        /\ TabContent(tab).message \in NoDataMessages
        /\ (LoadedCount /\ filteredRecords.v \in 1..9) =>
                        /\ TabContent(tab).kind = "insufficient-data"
                        /\ TabContent(tab).title = "Insufficient Data"
                        /\ TabContent(tab).message \notin NoDataMessages
        /\ (LoadedCount /\ TabContent(tab).charts # {}) => filteredRecords.v >= 10

\* C18 as stated: in every tab no-data guidance at 0 records, a different
\* insufficient-data guidance at 1..9, no chart in either state, and the
\* full chart set at 10 records.
C18_ChartsOnlyWhenSufficient ==
    /\ GuidanceBelowTen
    /\ \A tab \in Tabs : Loaded(10) => TabContent(tab).charts = FullChartSet(tab)

\* C18 amended: at 10 records and more the tab renders its chart section; the
\* overview and geographic tabs draw a chart only for a series that is not
\* empty, the four other tabs draw all their charts.
C18_ChartsOnlyWhenSufficientSeries ==
    /\ GuidanceBelowTen
    /\ \A tab \in Tabs :
          (LoadedCount /\ filteredRecords.v >= 10) =>
              /\ TabContent(tab).kind = "charts"
              /\ TabContent(tab).charts =
                    IF tab \in {"overview", "geographic"}
                    THEN {c \in FullChartSet(tab) :
                            Get(data, IF tab = "overview" THEN c[2] ELSE "geographicData").v
                              # <<>>}
                    ELSE FullChartSet(tab)

\* The geographic tab in the three states.
C18_Witness ==
    /\ Loaded(10) /\ Get(data, "geographicData").v # <<>>
    /\ activeTab = "geographic" /\ AnalyticsView = "Dashboard"
    /\ renderTabContent.charts = FullChartSet("geographic")

C18_WitnessInsufficient ==
    /\ Loaded(9) /\ activeTab = "geographic" /\ AnalyticsView = "Dashboard"
    /\ renderTabContent.kind = "insufficient-data"
    /\ renderTabContent.message = "Insufficient data for meaningful geographic analysis."

C18_WitnessEmptySeries ==
    /\ Loaded(10) /\ Get(data, "trendData").v = <<>>
    /\ activeTab = "overview" /\ AnalyticsView = "Dashboard"
    /\ renderTabContent = [kind |-> "charts",
                           charts |-> {<<"BarChart", "salaryDistribution">>,
                                       <<"PieChart", "jobTitleData">>}]

\* C19: when the dashboard shows data with filteredRecords = 0, every tab
\* renders the no-data state, and 'Reset All Filters' is in it exactly when
\* one of the four filters is not 'All'.
C19_NoDataResetIffFilterActive ==
    (AnalyticsView = "Dashboard" /\ Loaded(0)) =>
        /\ renderTabContent.kind = "no-data"
        /\ renderTabContent.resetAllFilters
             <=> (\E k \in {"location", "experienceLevel", "companySize", "salaryRange"} :
                     filters[k] # "All")

C19_Witness ==
    /\ AnalyticsView = "Dashboard" /\ Loaded(0)
    /\ filters = [AllFilters EXCEPT !.salaryRange = "150k+"]
    /\ renderTabContent.kind = "no-data" /\ renderTabContent.resetAllFilters

C19_WitnessNoFilter ==
    /\ AnalyticsView = "Dashboard" /\ Loaded(0)
    /\ filters = AllFilters
    /\ renderTabContent.kind = "no-data" /\ ~renderTabContent.resetAllFilters

\* ---- reading a query string back, as the receiving server does
\* The parts of text between the separators (one character).
RECURSIVE SplitOn(_, _)
SplitOn(text, sep) ==
    LET at == {i \in 1..Len(text) : SubSeq(text, i, i) = sep}
    IN  IF at = {} THEN <<text>>
        ELSE LET i == CHOOSE k \in at : \A j \in at : k <= j
             IN  <<SubSeq(text, 1, i - 1)>> \o SplitOn(SubSeq(text, i + 1, Len(text)), sep)

\* + is a space and %XX the byte XX.
RECURSIVE FormUrlDecode(_)
FormUrlDecode(text) ==
    IF text = "" THEN ""
    ELSE LET c == SubSeq(text, 1, 1)
         IN  IF c = "+" THEN " " \o FormUrlDecode(SubSeq(text, 2, Len(text)))
             ELSE IF c = "%"
             THEN (CHOOSE b \in DOMAIN PercentCodes : PercentCodes[b] = SubSeq(text, 1, 3))
                  \o FormUrlDecode(SubSeq(text, 4, Len(text)))
             ELSE c \o FormUrlDecode(SubSeq(text, 2, Len(text)))

\* The parameters of a query string, in order, as <<name, value>> pairs.
QueryParameters(query) ==
    IF query = "" THEN <<>>
    ELSE LET parts == SplitOn(query, "&")
         IN  [i \in DOMAIN parts |->
                 LET kv == SplitOn(parts[i], "=")
                 IN  <<FormUrlDecode(kv[1]), FormUrlDecode(kv[2])>>]

\* The query string of a request's URL.
QueryOfUrl(url) == SubSeq(url, Len(OverviewPath) + 1, Len(url))

\* C20: the query string of every overview request has a parameter for a
\* filter key exactly when the filter (of the render that made the call) is
\* not 'All', once, with the filter's value; with all four filters at 'All'
\* the query string is empty.
C20_QueryHasNonAllFilters ==
    \A i \in DOMAIN overviewRequests :
        LET request == overviewRequests[i]
            params == QueryParameters(QueryOfUrl(request.url))
            active == {k \in {"location", "experienceLevel", "companySize", "salaryRange"} :
                          request.filters[k] # "All"}
        IN  /\ SubSeq(request.url, 1, Len(OverviewPath)) = OverviewPath
            /\ {params[j] : j \in DOMAIN params} = {<<k, request.filters[k]>> : k \in active}
            /\ Len(params) = Cardinality(active)
            /\ request.filters = filters
            /\ active = {} => QueryOfUrl(request.url) = ""

\* A request with two filters whose values need encoding.
C20_Witness ==
    /\ overviewRequests # <<>>
    /\ overviewRequests[1].filters
         = [AllFilters EXCEPT !.location = "A&B", !.salaryRange = "150k+"]
    /\ overviewRequests[1].url
         = "/api/analytics/overview?location=A%26B&salaryRange=150k%2B"

C20_WitnessAll ==
    /\ overviewRequests # <<>>
    /\ overviewRequests[1].filters = AllFilters
    /\ overviewRequests[1].url = "/api/analytics/overview?"

\* ---- failed overview fetches
\* The outcomes that are failures: the fetch rejects, the status is not 2xx,
\* or the body is JSON whose status is not 'success'.
FailedOverview(o) ==
    \/ o.kind = "reject"
    \/ o.kind = "response" /\ ~Ok(o)
    \/ /\ o.kind = "response" /\ Ok(o) /\ o.body.kind = "json"
       /\ Get(o.body.value, "status") # Str("success")

\* The datasets that the responses carry.
ServedData ==
    {Get(o.body.value, "data") :
        o \in {r \in OverviewOutcomes : r.kind = "response" /\ r.body.kind = "json"}}

\* The parameters of the request that a step has added.
AddedRequest == overviewRequests'[Len(overviewRequests')]

\* C21: every failed overview fetch (rejected, non-2xx, or a body whose
\* status is not 'success') ends in the error view with a non-empty message
\* and the Retry control, data left as it was; data is never anything but
\* null or what a response carried; and Retry adds one request whose query
\* has the parameters of the current filters.
C21_FailuresSurfaceWithRetry ==
    /\ [](data \in {Null} \cup ServedData)
    /\ [](AnalyticsView = "Error" => AnalyticsControls = {"Retry"})
    /\ [][\A i \in DOMAIN overviewRequests :
            \A o \in {f \in OverviewOutcomes : FailedOverview(f)} :
               FetchAnalyticsDataSettle(i, o) =>
                  /\ AnalyticsView' = "Error"
                  /\ analyticsError' # <<>> /\ analyticsError'[1] # ""
                  /\ ~analyticsIsLoading'
                  /\ data' = data]_vars
    /\ [][Retry =>
            /\ Len(overviewRequests') = Len(overviewRequests) + 1
            /\ LET params == QueryParameters(QueryOfUrl(AddedRequest.url))
               IN  {params[j] : j \in DOMAIN params}
                     = {<<k, filters[k]>> : k \in {n \in DOMAIN filters : filters[n] # "All"}}
            /\ filters' = filters]_vars

\* A filtered request failed at network level over loaded data: the error
\* view with the fetch's message, the data of before still in place.
C21_Witness ==
    /\ AnalyticsView = "Error"
    /\ analyticsError = <<"Failed to fetch">>
    /\ overviewRequests = <<>>
    /\ Loaded(11)
    /\ filters = [AllFilters EXCEPT !.salaryRange = "150k+"]

\* The request of a Retry after that failure.
C21_WitnessRetried ==
    /\ AnalyticsView = "Loading"
    /\ Len(overviewRequests) = 1
    /\ overviewRequests[1].url = "/api/analytics/overview?salaryRange=150k%2B"
    /\ Loaded(0)

\* ---- the states of the panel
\* The states the panel is in: the error view, the loading view, or the
\* dashboard with no data, insufficient data or sufficient data.
PanelStates ==
    {state \in {"Error", "Loading", "NoData", "InsufficientData", "Ready"} :
        CASE state = "Error" -> AnalyticsView = "Error"
          [] state = "Loading" -> AnalyticsView = "Loading"
          [] state = "NoData" -> AnalyticsView = "Dashboard" /\ hasNoData
          [] state = "InsufficientData" -> AnalyticsView = "Dashboard" /\ hasInsufficientData
          [] state = "Ready" -> AnalyticsView = "Dashboard" /\ hasMinimumData}

\* Steps: a control that asks for data, a request starting, a request settling.
FilterStep == filters' # filters
RequestStarts == Len(overviewRequests') > Len(overviewRequests)
RequestSettles == Len(overviewRequests') < Len(overviewRequests)

\* C26: every filter change, reset, refresh and retry leaves the panel in
\* Loading with one more overview request (the only one in flight); a
\* request that settles leaves the panel in exactly one of Error, NoData,
\* InsufficientData and Ready; and a step that neither starts nor settles
\* a request leaves the panel in the state it was in.
C26_LoadingThenOneState ==
    /\ [][(FilterStep \/ resetFilters \/ RefreshData \/ Retry) =>
            /\ PanelStates' = {"Loading"}
            /\ Len(overviewRequests') = Len(overviewRequests) + 1
            /\ Len(overviewRequests') = 1]_vars
    /\ [][RequestSettles =>
            /\ Cardinality(PanelStates') = 1
            /\ PanelStates' \subseteq {"Error", "NoData", "InsufficientData", "Ready"}]_vars
    /\ [][(~RequestStarts /\ ~RequestSettles) => PanelStates' = PanelStates]_vars

\* A filtered request has settled with nine records and the tab was changed
\* afterwards: InsufficientData, held.
C26_Witness ==
    /\ PanelStates = {"InsufficientData"}
    /\ filters = [AllFilters EXCEPT !.location = "A&B"]
    /\ overviewRequests = <<>>
    /\ activeTab = "trends"

\* The request of a Retry is in flight, after a 'success' body without data.
C26_WitnessRetry ==
    /\ PanelStates = {"Loading"}
    /\ Len(overviewRequests) = 1
    /\ data = Undefined

(***************************************************************************)
(* Result Presenter: PredictionResults                                     *)
(***************************************************************************)
\* The number n / d, where it need not be an integer.
Ratio(n, d) == [t |-> "ratio", n |-> n, d |-> d]

\* The largest integer <= n / d (d > 0).
FloorDiv(n, d) == n \div d

\* Math.round(n / d) for integers n and d # 0: the nearest integer, a tie
\* going up.  (The code works in doubles; the model is exact.)
MathRound(n, d) ==
    IF d > 0 THEN (2 * n + d) \div (2 * d)
    ELSE (2 * (0 - n) + (0 - d)) \div (2 * (0 - d))

Max(a, b) == IF a >= b THEN a ELSE b
Min(a, b) == IF a <= b THEN a ELSE b

\* getPredictionPrecision with Math.floor where the code rounds.
getPredictionPrecisionTruncating(predictedSalary, confidenceInterval) ==
    LET upper == Get(confidenceInterval, "upper")
        lower == Get(confidenceInterval, "lower")
    IN  IF ~Truthy(upper) \/ ~Truthy(lower) \/ ~Truthy(predictedSalary)
           \/ predictedSalary = Num(0)
        THEN Obj([percentage |-> Num(85), range |-> Ratio(3 * predictedSalary.v, 10)])
        ELSE LET range == upper.v - lower.v
                 p == predictedSalary.v
                 rounded == IF p > 0 THEN FloorDiv(100 * (p - range), p)
                            ELSE FloorDiv(100 * (range - p), 0 - p)
                 precision == Max(60, Min(95, rounded))
             IN  Obj([percentage |-> Num(precision),
                      range |-> Num(range),
                      margin |-> Num(FloorDiv(range, 2))])

\* (1 - range / p) * 100 is 100 * (p - range) / p.
getPredictionPrecision(predictedSalary, confidenceInterval) ==
    LET upper == Get(confidenceInterval, "upper")
        lower == Get(confidenceInterval, "lower")
    IN  IF ~Truthy(upper) \/ ~Truthy(lower) \/ ~Truthy(predictedSalary)
           \/ predictedSalary = Num(0)
        THEN Obj([percentage |-> Num(85), range |-> Ratio(3 * predictedSalary.v, 10)])
        ELSE LET range == upper.v - lower.v
                 p == predictedSalary.v
                 precision == Max(60, Min(95, MathRound(100 * (p - range), p)))
             IN  Obj([percentage |-> Num(precision),
                      range |-> Num(range),
                      margin |-> Num(MathRound(range, 2))])

\* a ?? b
Nullish(a, b) == IF a.t \in {"undef", "null"} THEN b ELSE a

\* Thousands separators of en-US.
RECURSIVE GroupDigits(_)
GroupDigits(s) ==
    IF Len(s) <= 3 THEN s
    ELSE GroupDigits(SubSeq(s, 1, Len(s) - 3)) \o "," \o SubSeq(s, Len(s) - 2, Len(s))

\* Intl rounds to the nearest integer, a tie going away from zero (d > 0).
RoundHalfExpand(n, d) ==
    IF n >= 0 THEN (2 * n + d) \div (2 * d) ELSE 0 - ((2 * (0 - n) + d) \div (2 * d))

\* formatCurrency: '$0' for what is not a number, else USD without cents.
formatCurrency(amount) ==
    IF amount.t \notin {"num", "ratio"} THEN "$0"
    ELSE LET n == IF amount.t = "num" THEN amount.v
                  ELSE RoundHalfExpand(amount.n, amount.d)
         IN  IF n < 0 THEN "-$" \o GroupDigits(ToString(0 - n))
             ELSE "$" \o GroupDigits(ToString(n))

EmptyObject == Obj(<<>>)
DefaultModelAccuracy == Ratio(7336, 10000)

\* getModelConfidence: Math.round(modelAccuracy * 100)
getModelConfidence(metadata) ==
    LET modelAccuracy == OrElse(Get(metadata, "model_accuracy"), DefaultModelAccuracy)
    IN  IF modelAccuracy.t = "ratio"
        THEN MathRound(100 * modelAccuracy.n, modelAccuracy.d)
        ELSE 100 * modelAccuracy.v

\* The fallbacks without the one of metadata.
FallbacksKeepingMetadata(result) ==
    [predictedSalary |-> OrElse(Get(result, "predictedSalary"), Num(0)),
     confidenceInterval |-> OrElse(Get(result, "confidenceInterval"),
                                   Obj([lower |-> Num(0), upper |-> Num(0)])),
     similarJobs |-> OrElse(Get(result, "similarJobs"), Num(0)),
     marketPosition |-> OrElse(Get(result, "marketPosition"), Str("Unknown")),
     factors |-> OrElse(Get(result, "factors"), Arr(<<>>)),
     metadata |-> Get(result, "metadata")]

\* "Check for required properties with fallbacks"
Fallbacks(result) ==
    [predictedSalary |-> OrElse(Get(result, "predictedSalary"), Num(0)),
     confidenceInterval |-> OrElse(Get(result, "confidenceInterval"),
                                   Obj([lower |-> Num(0), upper |-> Num(0)])),
     similarJobs |-> OrElse(Get(result, "similarJobs"), Num(0)),
     marketPosition |-> OrElse(Get(result, "marketPosition"), Str("Unknown")),
     factors |-> OrElse(Get(result, "factors"), Arr(<<>>)),
     metadata |-> OrElse(Get(result, "metadata"), EmptyObject)]

\* What PredictionResults renders from its result prop.  Reading a property
\* of undefined or null throws while rendering.
PredictionResults(result) ==
    IF ~Truthy(result) THEN [view |-> "No prediction result available"]
    ELSE LET f == Fallbacks(result)
         IN  IF \E x \in {f.confidenceInterval, f.similarJobs, f.factors, f.metadata} :
                    ~CanRead(x)
             THEN [view |-> "TypeError"]
             ELSE
             LET predictionPrecision ==
                     getPredictionPrecision(f.predictedSalary, f.confidenceInterval)
                 margin == formatCurrency(Nullish(Get(predictionPrecision, "margin"), Num(0)))
             IN  [view |-> "result",
                  predictedSalary |-> f.predictedSalary,
                  confidenceInterval |-> f.confidenceInterval,
                  similarJobs |-> f.similarJobs,
                  marketPosition |-> f.marketPosition,
                  factors |-> f.factors,
                  metadata |-> f.metadata,
                  modelConfidence |-> getModelConfidence(f.metadata),
                  predictionPrecision |-> predictionPrecision,
                  \* the line under the predicted salary
                  headline |->
                      IF Truthy(Get(f.confidenceInterval, "lower"))
                         /\ Truthy(Get(f.confidenceInterval, "upper"))
                      THEN [text |-> "margin of error", amount |-> margin]
                      ELSE [text |-> "(estimated)",
                            amount |-> formatCurrency(
                                Num(MathRound(2 * f.predictedSalary.v, 10)))],
                  \* Prediction Precision card, Recommendations, Technical Details
                  precisionCard |-> [percentage |-> Get(predictionPrecision, "percentage"),
                                     amount |-> margin],
                  recommendations |-> [amount |-> margin],
                  technicalDetails |->
                      IF ObjectKeys(f.metadata) # {} THEN <<[amount |-> margin]>> ELSE <<>>]

\* ---- the results it is given
ResultSalaries == {Undefined, Num(0), Num(200), Num(1000), Num(125000), Num(0 - 200)}
ResultLowers == {Undefined, Num(0), Num(1), Num(100), Num(151), Num(110000)}
ResultUppers == {Undefined, Num(0), Num(150), Num(200), Num(1001), Num(140000)}
ResultSimilarJobs == {Undefined, Num(0), Num(347)}
ResultMarketPositions == {Undefined, Str(""), Str("Average")}
ResultFactors ==
    {Undefined, Arr(<<>>),
     Arr(<<Obj([name |-> Str("Experience"), impact |-> Num(5000),
                description |-> Str("Years of experience")])>>)}
ResultMetadata ==
    {Undefined, Null, EmptyObject,
     Obj([model_accuracy |-> Num(0)]),
     Obj([model_accuracy |-> Ratio(8515, 10000)]),
     Obj([model_version |-> Str("2.0")])}

\* An object of the fields that are not undefined.
ObjOf(fields) == Obj([f \in {g \in DOMAIN fields : fields[g] # Undefined} |-> fields[f]])

ResultInputs ==
    {Null}
    \cup {ObjOf([predictedSalary |-> p]) : p \in ResultSalaries}
    \cup {ObjOf([predictedSalary |-> p, metadata |-> m,
                 confidenceInterval |-> ObjOf([lower |-> l, upper |-> u])]) :
            p \in ResultSalaries, l \in ResultLowers, u \in ResultUppers,
            m \in {Undefined, Obj([model_version |-> Str("2.0")])}}
    \cup {ObjOf([predictedSalary |-> p, confidenceInterval |-> c, similarJobs |-> j,
                 marketPosition |-> mp, factors |-> fs, metadata |-> m]) :
            p \in {Undefined, Num(125000)},
            c \in {Undefined, Obj([lower |-> Num(110000), upper |-> Num(140000)])},
            j \in ResultSimilarJobs, mp \in ResultMarketPositions,
            fs \in ResultFactors, m \in ResultMetadata}

InitResults ==
    /\ FormInit /\ PageInit /\ AnalyticsIdle /\ HistoryIdle /\ RouteIdle
    /\ pureIn \in {<<"PredictionResults", r>> : r \in ResultInputs}
    /\ pureOut = <<>>

RenderPredictionResults ==
    /\ pureIn[1] = "PredictionResults"
    /\ pureOut = <<>>
    /\ pureOut' = <<PredictionResults(pureIn[2])>>
    /\ UNCHANGED <<pureIn, formVars, pageVars, routeVars, analyticsVars, historyVars>>

NextResults == RenderPredictionResults

SpecResults == InitResults /\ [][NextResults]_vars

Rendered ==
    /\ pureIn # <<>> /\ pureIn[1] = "PredictionResults"
    /\ pureOut # <<>> /\ pureOut[1].view = "result"

\* predictedSalary, lower and upper of the result are all non-zero numbers.
RenderedNonZero ==
    /\ Rendered
    /\ Truthy(Get(pureIn[2], "predictedSalary"))
    /\ Truthy(Get(Get(pureIn[2], "confidenceInterval"), "lower"))
    /\ Truthy(Get(Get(pureIn[2], "confidenceInterval"), "upper"))

\* C10: for non-zero salary, lower and upper, percentage is
\* round((1 - (upper - lower) / salary) * 100) clamped to [60,95] and margin
\* is round((upper - lower) / 2), a tie rounding up; 125000 with
\* [110000,140000] gives 76 and 15000; the percentage is in [60,95] for
\* every result.  With x = (1 - range/p) * 100: n = round(x) iff
\* n - 1/2 <= x < n + 1/2, stated here without division.
C10_PrecisionFormula ==
    /\ Rendered =>
          /\ Get(pureOut[1].predictionPrecision, "percentage").v >= 60
          /\ Get(pureOut[1].predictionPrecision, "percentage").v <= 95
    /\ RenderedNonZero =>
          LET p == Get(pureIn[2], "predictedSalary").v
              range == Get(Get(pureIn[2], "confidenceInterval"), "upper").v
                         - Get(Get(pureIn[2], "confidenceInterval"), "lower").v
              pct == Get(pureOut[1].predictionPrecision, "percentage").v
              margin == Get(pureOut[1].predictionPrecision, "margin").v
              \* 2 * x * |p| and |p|
              twoX == IF p > 0 THEN 200 * (p - range) ELSE 200 * (range - p)
              absP == IF p > 0 THEN p ELSE 0 - p
          IN  /\ pct = 60 => twoX < 121 * absP
              /\ pct = 95 => twoX >= 189 * absP
              /\ (pct > 60 /\ pct < 95) =>
                    ((2 * pct - 1) * absP <= twoX /\ twoX < (2 * pct + 1) * absP)
              /\ 2 * margin - 1 <= range
              /\ range < 2 * margin + 1
              /\ (p = 125000 /\ range = 30000) => (pct = 76 /\ margin = 15000)

\* The example of the claim, and a tie that rounds up (75.5 to 76, 24.5 to 25).
C10_Witness ==
    /\ RenderedNonZero
    /\ Get(pureIn[2], "predictedSalary") = Num(125000)
    /\ Get(pureIn[2], "confidenceInterval") = Obj([lower |-> Num(110000), upper |-> Num(140000)])
    /\ Get(pureOut[1].predictionPrecision, "percentage") = Num(76)
    /\ Get(pureOut[1].predictionPrecision, "margin") = Num(15000)

C10_WitnessTie ==
    /\ RenderedNonZero
    /\ Get(pureIn[2], "predictedSalary") = Num(200)
    /\ Get(pureIn[2], "confidenceInterval") = Obj([lower |-> Num(151), upper |-> Num(200)])
    /\ Get(pureOut[1].predictionPrecision, "percentage") = Num(76)
    /\ Get(pureOut[1].predictionPrecision, "margin") = Num(25)

\* The lower bound, the upper bound or the predicted salary of the result is
\* absent or zero.
RenderedDefault ==
    /\ Rendered
    /\ \/ ~Truthy(Get(pureIn[2], "predictedSalary"))
       \/ ~Truthy(Get(Get(pureIn[2], "confidenceInterval"), "lower"))
       \/ ~Truthy(Get(Get(pureIn[2], "confidenceInterval"), "upper"))

\* 30% of the predicted salary, as formatCurrency shows it.
ThirtyPercentShown == formatCurrency(Ratio(3 * pureOut[1].predictedSalary.v, 10))

\* C11: when lower, upper or the predicted salary is absent or zero, the
\* precision shown is 85% and every place that displays the margin of error
\* shows 30% of the predicted salary.
C11_DefaultMarginShown ==
    RenderedDefault =>
        /\ pureOut[1].precisionCard.percentage = Num(85)
        /\ pureOut[1].headline.amount = ThirtyPercentShown
        /\ pureOut[1].precisionCard.amount = ThirtyPercentShown
        /\ pureOut[1].recommendations.amount = ThirtyPercentShown
        /\ \A i \in DOMAIN pureOut[1].technicalDetails :
                pureOut[1].technicalDetails[i].amount = ThirtyPercentShown

\* What the code does in that case: 85%, a range (not a margin) of 30% of the
\* salary, '$0' wherever predictionPrecision.margin is displayed, and 20% of
\* the salary in the headline when lower or upper is absent or zero.
C11_DefaultAsCoded ==
    RenderedDefault =>
        /\ pureOut[1].precisionCard.percentage = Num(85)
        /\ Get(pureOut[1].predictionPrecision, "range")
             = Ratio(3 * pureOut[1].predictedSalary.v, 10)
        /\ Get(pureOut[1].predictionPrecision, "margin") = Undefined
        /\ pureOut[1].precisionCard.amount = "$0"
        /\ pureOut[1].recommendations.amount = "$0"
        /\ \A i \in DOMAIN pureOut[1].technicalDetails :
                pureOut[1].technicalDetails[i].amount = "$0"
        /\ pureOut[1].headline.text = "(estimated)" =>
                pureOut[1].headline.amount
                  = formatCurrency(Ratio(2 * pureOut[1].predictedSalary.v, 10))

C11_WitnessAsCoded ==
    /\ RenderedDefault
    /\ pureIn[2] = Obj([predictedSalary |-> Num(125000)])
    /\ pureOut[1].headline = [text |-> "(estimated)", amount |-> "$25,000"]
    /\ pureOut[1].precisionCard = [percentage |-> Num(85), amount |-> "$0"]

\* The value the view holds for a field: the field, or its fallback when the
\* field is absent (or otherwise falsy).
Substituted(field, fallback) ==
    IF Truthy(Get(pureIn[2], field)) THEN Get(pureIn[2], field) ELSE fallback

\* C12: a non-null result always renders (no TypeError), with predictedSalary
\* 0, confidenceInterval {0, 0}, similarJobs 0, marketPosition 'Unknown',
\* factors [] and metadata {} in place of absent fields, and a model
\* confidence of 73 when model_accuracy is absent or zero; null renders
\* 'No prediction result available'.
C12_FallbacksForAbsentFields ==
    (pureIn # <<>> /\ pureIn[1] = "PredictionResults" /\ pureOut # <<>>) =>
        IF pureIn[2] = Null
        THEN pureOut[1] = [view |-> "No prediction result available"]
        ELSE /\ pureOut[1].view = "result"
             /\ pureOut[1].predictedSalary = Substituted("predictedSalary", Num(0))
             /\ pureOut[1].confidenceInterval
                  = Substituted("confidenceInterval", Obj([lower |-> Num(0), upper |-> Num(0)]))
             /\ pureOut[1].similarJobs = Substituted("similarJobs", Num(0))
             /\ pureOut[1].marketPosition = Substituted("marketPosition", Str("Unknown"))
             /\ pureOut[1].factors = Substituted("factors", Arr(<<>>))
             /\ pureOut[1].metadata = Substituted("metadata", Obj(<<>>))
             /\ ~Truthy(Get(Get(pureIn[2], "metadata"), "model_accuracy"))
                  => pureOut[1].modelConfidence = 73

\* Every field absent, and a result whose model accuracy is zero.
C12_Witness ==
    /\ Rendered
    /\ pureIn[2] = Obj(<<>>)
    /\ pureOut[1].marketPosition = Str("Unknown")
    /\ pureOut[1].modelConfidence = 73

C12_WitnessZeroAccuracy ==
    /\ Rendered
    /\ Get(pureIn[2], "metadata") = Obj([model_accuracy |-> Num(0)])
    /\ pureOut[1].modelConfidence = 73

C12_WitnessNull ==
    /\ pureIn # <<>> /\ pureIn[1] = "PredictionResults" /\ pureIn[2] = Null
    /\ pureOut = <<[view |-> "No prediction result available"]>>

(***************************************************************************)
(* getRecommendedSkills as a pure function of the title                    *)
(***************************************************************************)
TitlePrefixes ==
    {"", "Senior ", "ML ", "Data ", "ETL ", "DevOps ", "SRE ", "Product ",
     "Backend ", "React ", "UI ", "AI ", "Software ", "Building "}
TitleRoles ==
    {"", "Engineer", "ENGINEER", "Scientist", "Analyst", "Researcher",
     "Manager", "Developer", "Basket Weaver"}
TitleInputs ==
    {a \o b : a \in TitlePrefixes, b \in TitleRoles}
    \cup {"Senior ML Engineer", "Underwater Basket Weaver",
          "Data Scientist and ML Engineer", "ML Engineer and Data Scientist",
          "React Software Engineer", "engineer"}

InitRecommend ==
    /\ FormInit /\ PageInit /\ AnalyticsIdle /\ HistoryIdle /\ RouteIdle
    /\ pureIn \in {<<"getRecommendedSkills", t>> : t \in TitleInputs}
    /\ pureOut = <<>>

CallGetRecommendedSkills ==
    /\ pureIn[1] = "getRecommendedSkills"
    /\ pureOut = <<>>
    /\ pureOut' = <<getRecommendedSkills(pureIn[2])>>
    /\ UNCHANGED <<pureIn, formVars, pageVars, routeVars, analyticsVars, historyVars>>

NextRecommend == CallGetRecommendedSkills

SpecRecommend == InitRecommend /\ [][NextRecommend]_vars

\* ---- the reference of the claim, from tables
\* The keys in their order of declaration.
ReferenceKeys ==
    <<"data scientist", "ml engineer", "data engineer", "data analyst",
      "ai researcher", "software engineer", "product manager",
      "devops engineer", "backend engineer", "frontend engineer">>

\* The cascade: a rule matches when the title contains a word of each set.
ReferenceCascade ==
    << [words |-> {{"scientist"}}, role |-> "data scientist"],
       [words |-> {{"engineer"}, {"ml"}}, role |-> "ml engineer"],
       [words |-> {{"engineer"}, {"data", "etl"}}, role |-> "data engineer"],
       [words |-> {{"analyst"}}, role |-> "data analyst"],
       [words |-> {{"research"}}, role |-> "ai researcher"],
       [words |-> {{"devops", "sre"}}, role |-> "devops engineer"],
       [words |-> {{"product"}}, role |-> "product manager"],
       [words |-> {{"backend"}}, role |-> "backend engineer"],
       [words |-> {{"frontend", "react", "ui"}}, role |-> "frontend engineer"],
       [words |-> {{"engineer"}}, role |-> "software engineer"] >>

First(S) == CHOOSE i \in S : \A j \in S : i <= j

\* The role the reference picks for a title, "" when none.
ReferenceRole(title) ==
    LET t == ToLowerCase(title)
        keys == {i \in DOMAIN ReferenceKeys : Includes(t, ReferenceKeys[i])}
        rules == {i \in DOMAIN ReferenceCascade :
                     \A ws \in ReferenceCascade[i].words : \E w \in ws : Includes(t, w)}
    IN  IF keys # {} THEN ReferenceKeys[First(keys)]
        ELSE IF rules # {} THEN ReferenceCascade[First(rules)].role
        ELSE ""

ReferenceSkills(title) ==
    LET role == ReferenceRole(title)
    IN  IF role = "" THEN [core |-> <<>>, advanced |-> <<>>, tools |-> <<>>]
        ELSE LET e == ROLE_SKILL_MAPPING[CHOOSE i \in DOMAIN ROLE_SKILL_MAPPING :
                                            ROLE_SKILL_MAPPING[i].role = role]
             IN  [core |-> e.core, advanced |-> e.advanced, tools |-> e.tools]

Recommended ==
    pureIn # <<>> /\ pureIn[1] = "getRecommendedSkills" /\ pureOut # <<>>

\* C13: getRecommendedSkills(title) is the skills of the first key of
\* ROLE_SKILL_MAPPING (declaration order) contained in the lowercased title,
\* else of the first matching rule of the cascade, else three empty
\* sequences; 'Senior ML Engineer' gets the ml-engineer core set, a bare
\* 'engineer' the software-engineer skills, 'Underwater Basket Weaver' and
\* the empty title nothing.
C13_RecommendedSkillsReference ==
    Recommended =>
        /\ pureOut[1] = ReferenceSkills(pureIn[2])
        /\ pureIn[2] = "Senior ML Engineer" =>
              pureOut[1].core
                = <<"Python", "Machine Learning", "TensorFlow", "PyTorch", "Docker">>
        /\ pureIn[2] = "engineer" =>
              pureOut[1].core = <<"Python", "Git", "Algorithms", "Data Structures">>
        /\ pureIn[2] \in {"", "Underwater Basket Weaver"} =>
              pureOut[1] = [core |-> <<>>, advanced |-> <<>>, tools |-> <<>>]

C13_Witness ==
    /\ Recommended
    /\ pureIn[2] = "Senior ML Engineer"
    /\ pureOut[1].core = <<"Python", "Machine Learning", "TensorFlow", "PyTorch", "Docker">>

\* A later cascade rule wins over the bare 'engineer' rule.
C13_WitnessCascade ==
    /\ Recommended
    /\ pureIn[2] = "Building Engineer"
    /\ pureOut[1].core = <<"JavaScript", "React", "HTML", "CSS", "TypeScript">>

C13_WitnessNoMatch ==
    /\ Recommended
    /\ pureIn[2] = "Underwater Basket Weaver"
    /\ pureOut[1] = [core |-> <<>>, advanced |-> <<>>, tools |-> <<>>]

(***************************************************************************)
(* The form under edits of the title and of the skill selection           *)
(***************************************************************************)
SkillsTitles == {"", "ML Engineer", "Data Analyst", "Chef"}
SkillsClicks == {"Python", "Rust"}
SkillsCustom == {"", " Docker ", "Python"}

InitSkills == FormInit /\ PageInit /\ AnalyticsIdle /\ HistoryIdle /\ RouteIdle /\ PureIdle

NextSkills ==
    /\ \/ \E v \in SkillsTitles : SetJobTitle(v)
       \/ \E k \in SkillsClicks : toggleSkill(k)
       \/ \E v \in SkillsCustom : SetCustomSkill(v)
       \/ addCustomSkill
       \/ AddAllEssential
       \/ RemoveAllRecommended
    /\ UNCHANGED <<pageVars, routeVars, pureVars, analyticsVars, historyVars>>

SpecSkills == InitSkills /\ [][NextSkills]_vars

\* C14: no form operation (title change with its auto-select, toggle, custom
\* skill, 'Add All Essential', 'Remove All Recommended') changes the
\* ROLE_SKILL_MAPPING object, and whatever operations have run, for every
\* title getRecommendedSkills returns one and the same value, which depends
\* on the title alone.
C14_RecommendationsPure ==
    /\ [](\A t \in SkillsTitles \cup {"Senior ML Engineer", "engineer"} :
             getRecommendedSkills(t) = ReferenceSkills(t))
    /\ [][roleSkillMapping' = roleSkillMapping]_vars

\* Auto-select, 'Add All Essential', a toggle and a custom skill have run,
\* and the recommendation for the title is the taxonomy's.
C14_Witness ==
    /\ formData.jobTitle = "ML Engineer"
    /\ selectedSkills = <<"Python", "Machine Learning", "TensorFlow", "PyTorch",
                          "Docker", "Rust">>
    /\ getRecommendedSkills("ML Engineer").core
         = <<"Python", "Machine Learning", "TensorFlow", "PyTorch", "Docker">>
    /\ roleSkillMapping = ROLE_SKILL_MAPPING

\* 'Remove All Recommended' has emptied a selection that auto-select made.
C14_WitnessRemoved ==
    /\ formData.jobTitle = "Data Analyst"
    /\ selectedSkills = <<"Rust">>
    /\ roleSkillMapping = ROLE_SKILL_MAPPING

\* ---- the auto-select effect
\* A step in which the title changes: the effect runs in its render.
TitleChanges == formData'.jobTitle # formData.jobTitle

\* The first four core skills that the taxonomy has for a title.
FirstFourCore(title) ==
    LET core == ReferenceSkills(title).core
    IN  [i \in 1..(IF Len(core) < 4 THEN Len(core) ELSE 4) |-> core[i]]

\* C24: on a title change the effect sets selectedSkills to the first four
\* core skills of the new title when the selection is empty and the title
\* has core skills, and leaves selectedSkills as it is in every other case;
\* a non-empty selection is never changed by a title change.
C24_AutoSelectOnlyWhenEmpty ==
    [][TitleChanges =>
         /\ selectedSkills' =
               IF selectedSkills = <<>> /\ FirstFourCore(formData'.jobTitle) # <<>>
               THEN FirstFourCore(formData'.jobTitle)
               ELSE selectedSkills
         /\ selectedSkills # <<>> => selectedSkills' = selectedSkills
         /\ Len(selectedSkills') \in {Len(selectedSkills), 4}]_vars

\* The effect has populated an empty selection.
C24_Witness ==
    /\ formData.jobTitle = "ML Engineer"
    /\ selectedSkills = <<"Python", "Machine Learning", "TensorFlow", "PyTorch">>
    /\ customSkill = ""

\* A selection made by hand under one title is intact under another.
C24_WitnessKept ==
    /\ formData.jobTitle = "Data Analyst"
    /\ selectedSkills = <<"Rust", "Docker">>

\* ---- one form session under title edits and skill removals, with the
\* populations of the effect counted
MaxAutoSelections == 2

AutoSelectTitles == {"", "ML Engineer", "Data Analyst", "Chef"}
AutoSelectClicks == {"Python", "Machine Learning", "Rust"}

\* A step in which the effect has called setSelectedSkills(autoSelect).
AutoPopulates ==
    /\ TitleChanges
    /\ AutoSelectEffect(formData'.jobTitle, selectedSkills) # selectedSkills

InitAutoSelect == FormInit /\ PageInit /\ AnalyticsIdle /\ HistoryIdle /\ RouteIdle /\ PureIdle

NextAutoSelect ==
    /\ \/ \E v \in AutoSelectTitles : SetJobTitle(v)
       \/ \E k \in AutoSelectClicks : toggleSkill(k)
       \/ RemoveAllRecommended
    /\ autoSelections' = IF AutoPopulates /\ autoSelections < MaxAutoSelections
                         THEN autoSelections + 1
                         ELSE autoSelections
    /\ UNCHANGED <<pageVars, routeVars, pureVars, analyticsVars>>

SpecAutoSelect == InitAutoSelect /\ [][NextAutoSelect]_vars

\* C25 as stated: in one form session the effect populates selectedSkills
\* at most once, whatever title edits and skill removals follow the first
\* population.
C25_AutoPopulatesOnce == autoSelections <= 1

\* What holds of the code: the effect populates selectedSkills in every
\* title change that finds the selection empty and the new title with core
\* skills, however many populations came before.
C25_PopulatesWheneverEmpty ==
    [][TitleChanges =>
         (AutoPopulates <=> (selectedSkills = <<>>
                               /\ FirstFourCore(formData'.jobTitle) # <<>>))]_vars

\* A second population: the skills of 'ML Engineer' were removed and the
\* title changed to 'Data Analyst'.
C25_WitnessTwice ==
    /\ autoSelections = 2
    /\ formData.jobTitle = "Data Analyst"
    /\ selectedSkills = <<"SQL", "Python", "Excel", "Statistics">>

(***************************************************************************)
(* The selections near their limits: the form with custom skills or        *)
(* benefits already added, under every operation on the two selections     *)
(***************************************************************************)
\* Custom entries that a user has added one after the other.
CustomSkills == [i \in 1..requiredSkillsMaxItems |-> "Skill " \o ToString(i)]
CustomBenefits == [i \in 1..benefitsMaxItems |-> "Benefit " \o ToString(i)]

SelectionTitles == {"", "ML Engineer"}
SelectionSkillClicks == {"Rust", "Skill 1"}
SelectionCustomSkills == {" Docker ", "Go"}
SelectionBenefitClicks == {"Remote Work"}
SelectionCustomBenefits == {" Gym "}
\* The numbers of custom entries at the start: none, and around the limits.
SelectionSkillCounts == {0, 14, 15, 16, 19, 20}
SelectionBenefitCounts == {0, 14, 15}

InitSelection ==
    /\ PageInit /\ AnalyticsIdle /\ HistoryIdle /\ RouteIdle /\ PureIdle
    /\ formData = [jobTitle |-> "", yearsExperience |-> 0,
                   companyLocation |-> "United States",
                   companySize |-> "Medium", remoteRatio |-> 0,
                   jobDescription |-> ""]
    /\ customSkill = "" /\ customBenefit = ""
    /\ errors = <<>> /\ onPredictCall = <<>>
    /\ roleSkillMapping = ROLE_SKILL_MAPPING
    /\ selectedSkills \in {SubSeq(CustomSkills, 1, n) : n \in SelectionSkillCounts}
    /\ selectedBenefits \in {SubSeq(CustomBenefits, 1, n) : n \in SelectionBenefitCounts}

NextSelection ==
    /\ \/ \E v \in SelectionTitles : SetJobTitle(v)
       \/ \E k \in SelectionSkillClicks : toggleSkill(k)
       \/ \E v \in SelectionCustomSkills : SetCustomSkill(v)
       \/ addCustomSkill
       \/ AddAllEssential
       \/ RemoveAllRecommended
       \/ \E b \in SelectionBenefitClicks : toggleBenefit(b)
       \/ \E v \in SelectionCustomBenefits : SetCustomBenefit(v)
       \/ addCustomBenefit
    /\ UNCHANGED <<pageVars, routeVars, pureVars, analyticsVars, historyVars>>

SpecSelection == InitSelection /\ [][NextSelection]_vars

NoDuplicate(items) == \A i, j \in DOMAIN items : items[i] = items[j] => i = j

\* The core skills of the title that are not selected, in their order.
MissingCore ==
    SelectSeq(ReferenceSkills(formData.jobTitle).core,
              LAMBDA skill : \A i \in DOMAIN selectedSkills : selectedSkills[i] # skill)

\* C23: whatever operations have run, selectedSkills has no duplicate and at
\* most 20 items and selectedBenefits has no duplicate and at most 15 items;
\* 'Add All Essential' appends every core skill not yet selected, or none,
\* and none exactly when all of them would make more than 20.
C23_SelectionsBounded ==
    /\ [](/\ NoDuplicate(selectedSkills) /\ Len(selectedSkills) <= 20
          /\ NoDuplicate(selectedBenefits) /\ Len(selectedBenefits) <= 15)
    /\ [][AddAllEssential =>
            selectedSkills' =
               IF Len(selectedSkills) + Len(MissingCore) > 20 THEN selectedSkills
               ELSE selectedSkills \o MissingCore]_vars

\* 'Add All Essential' has filled the selection to its limit, from 15 custom
\* skills and the five core skills of the title.
C23_Witness ==
    /\ formData.jobTitle = "ML Engineer"
    /\ selectedSkills = SubSeq(CustomSkills, 1, 15)
          \o <<"Python", "Machine Learning", "TensorFlow", "PyTorch", "Docker">>

\* At the limit a toggle of an unselected skill and a custom skill add nothing.
C23_WitnessFull ==
    /\ Len(selectedSkills) = 20
    /\ customSkill = "Go"
    /\ \A i \in DOMAIN selectedSkills : selectedSkills[i] \notin {"Go", "Rust"}

C23_WitnessBenefitsFull ==
    /\ Len(selectedBenefits) = 15
    /\ customBenefit = " Gym "
    /\ \A i \in DOMAIN selectedBenefits : selectedBenefits[i] # "Gym"

(***************************************************************************)
(* validateForm as a pure function of the form's state                     *)
(***************************************************************************)
\* n different items
Items(name, n) == [i \in 1..n |-> name \o " " \o ToString(i)]

ValidateTitles ==
    {"", " ", "a", " a", "QA", "ML Engineer",
     Repeat("x", jobTitleMaxLength), Repeat("x", jobTitleMaxLength + 1),
     Repeat(" ", jobTitleMaxLength + 1)}
ValidateYears == {yearsExperienceMin - 1, yearsExperienceMin, 7,
                  yearsExperienceMax, yearsExperienceMax + 1}
ValidateSkills ==
    {Items("skill", n) : n \in {0, requiredSkillsMaxItems, requiredSkillsMaxItems + 1}}
ValidateBenefits ==
    {Items("benefit", n) : n \in {0, benefitsMaxItems, benefitsMaxItems + 1}}
ValidateDescriptions ==
    {"", Repeat("d", jobDescriptionMaxLength), Repeat("d", jobDescriptionMaxLength + 1)}

InitValidate ==
    /\ FormInit /\ PageInit /\ AnalyticsIdle /\ HistoryIdle /\ RouteIdle
    /\ pureIn \in {<<"validateForm",
                     [jobTitle |-> t, yearsExperience |-> y, jobDescription |-> d],
                     sk, be>> :
                      t \in ValidateTitles, y \in ValidateYears,
                      d \in ValidateDescriptions,
                      sk \in ValidateSkills, be \in ValidateBenefits}
    /\ pureOut = <<>>

CallValidateForm ==
    /\ pureIn[1] = "validateForm"
    /\ pureOut = <<>>
    /\ pureOut' = <<validateForm(pureIn[2], pureIn[3], pureIn[4])>>
    /\ UNCHANGED <<pureIn, formVars, pageVars, routeVars, analyticsVars, historyVars>>

NextValidate == CallValidateForm

SpecValidate == InitValidate /\ [][NextValidate]_vars

Validated == pureIn # <<>> /\ pureIn[1] = "validateForm" /\ pureOut # <<>>

\* Text made of white space only (the empty text included).
Blank(text) == \A i \in 1..Len(text) : SubSeq(text, i, i) \in {" ", "\t", "\n", "\r"}

\* The constraints, field by field, in numbers.
TitleViolated(t) == Blank(t) \/ Len(t) < 2 \/ Len(t) > 200
YearsViolated(y) == y < 0 \/ y > 50
SkillsViolated(sk) == Len(sk) > 20
BenefitsViolated(be) == Len(be) > 15
DescriptionViolated(d) == Len(d) > 10000

OthersValid ==
    /\ ~YearsViolated(pureIn[2].yearsExperience)
    /\ ~SkillsViolated(pureIn[3])
    /\ ~BenefitsViolated(pureIn[4])
    /\ ~DescriptionViolated(pureIn[2].jobDescription)

\* C15: validateForm has an error for jobTitle exactly when the title is
\* empty or whitespace-only, shorter than 2 or longer than 200 characters;
\* with the other fields valid a title of 200 characters gives the empty
\* mapping and one of 201 characters a mapping keyed jobTitle.
C15_JobTitleRule ==
    Validated =>
        /\ ("jobTitle" \in DOMAIN pureOut[1]) <=> TitleViolated(pureIn[2].jobTitle)
        /\ "jobTitle" \in DOMAIN pureOut[1] => pureOut[1].jobTitle # ""
        /\ (OthersValid /\ Len(pureIn[2].jobTitle) = 200 /\ ~Blank(pureIn[2].jobTitle))
              => DOMAIN pureOut[1] = {}
        /\ (OthersValid /\ Len(pureIn[2].jobTitle) = 201)
              => DOMAIN pureOut[1] = {"jobTitle"}

C15_Witness ==
    /\ Validated /\ OthersValid
    /\ pureIn[2].jobTitle = Repeat("x", 200)
    /\ DOMAIN pureOut[1] = {}

C15_WitnessTooLong ==
    /\ Validated /\ OthersValid
    /\ pureIn[2].jobTitle = Repeat("x", 201)
    /\ DOMAIN pureOut[1] = {"jobTitle"}
    /\ pureOut[1].jobTitle = "Job title cannot exceed 200 characters"

\* C16: the mapping has a key for exactly the fields whose constraint is
\* violated, whatever the other fields hold; negative years and years above
\* 50 give different messages; the mapping is empty exactly when nothing is
\* violated.
C16_RulesIndependent ==
    Validated =>
        LET violated ==
                {f \in {"jobTitle", "yearsExperience", "requiredSkills", "benefits",
                        "jobDescription"} :
                    CASE f = "jobTitle" -> TitleViolated(pureIn[2].jobTitle)
                      [] f = "yearsExperience" -> YearsViolated(pureIn[2].yearsExperience)
                      [] f = "requiredSkills" -> SkillsViolated(pureIn[3])
                      [] f = "benefits" -> BenefitsViolated(pureIn[4])
                      [] f = "jobDescription" -> DescriptionViolated(pureIn[2].jobDescription)}
        IN  /\ DOMAIN pureOut[1] = violated
            /\ \A f \in DOMAIN pureOut[1] : pureOut[1][f] # ""
            /\ pureIn[2].yearsExperience < 0 =>
                  pureOut[1].yearsExperience = "Years of experience cannot be negative"
            /\ pureIn[2].yearsExperience > 50 =>
                  pureOut[1].yearsExperience = "Years of experience cannot exceed 50"

\* Every rule fails at once.
C16_Witness ==
    /\ Validated
    /\ DOMAIN pureOut[1] = {"jobTitle", "yearsExperience", "requiredSkills",
                            "benefits", "jobDescription"}
    /\ pureIn[2].yearsExperience = 51

C16_WitnessNegative ==
    /\ Validated
    /\ DOMAIN pureOut[1] = {"yearsExperience", "benefits"}
    /\ pureOut[1].yearsExperience = "Years of experience cannot be negative"

(***************************************************************************)
(* getExperienceLevelFromYears as a pure function: every integer that the  *)
(* years input can hold between one below the minimum and one above the    *)
(* maximum.                                                                *)
(***************************************************************************)
YearsInputs == (yearsExperienceMin - 1)..(yearsExperienceMax + 1)

InitTier ==
    /\ FormInit /\ PageInit /\ AnalyticsIdle /\ HistoryIdle /\ RouteIdle
    /\ pureIn \in {<<"getExperienceLevelFromYears", y>> : y \in YearsInputs}
    /\ pureOut = <<>>

CallGetExperienceLevelFromYears ==
    /\ pureIn[1] = "getExperienceLevelFromYears"
    /\ pureOut = <<>>
    /\ pureOut' = <<getExperienceLevelFromYears(pureIn[2])>>
    /\ UNCHANGED <<pureIn, formVars, pageVars, routeVars, analyticsVars, historyVars>>

NextTier == CallGetExperienceLevelFromYears

SpecTier == InitTier /\ [][NextTier]_vars

\* C1: for every integer yearsExperience in [0,50] the function returns the
\* tier of the table 0..2 Entry Level, 3..5 Mid Level, 6..10 Senior Level,
\* 11..50 Executive; the boundary values 2, 3, 5, 6, 10 and 11 fall on the
\* stated sides.
TierOfTable(y) ==
    CASE y \in 0..2 -> "Entry Level"
      [] y \in 3..5 -> "Mid Level"
      [] y \in 6..10 -> "Senior Level"
      [] y \in 11..50 -> "Executive"

TierDone == pureIn # <<>> /\ pureIn[1] = "getExperienceLevelFromYears" /\ pureOut # <<>>

C1_TierTable ==
    /\ (TierDone /\ pureIn[2] \in 0..50) => pureOut[1] = TierOfTable(pureIn[2])
    /\ (TierDone /\ pureIn[2] = 2) => pureOut[1] = "Entry Level"
    /\ (TierDone /\ pureIn[2] = 3) => pureOut[1] = "Mid Level"
    /\ (TierDone /\ pureIn[2] = 5) => pureOut[1] = "Mid Level"
    /\ (TierDone /\ pureIn[2] = 6) => pureOut[1] = "Senior Level"
    /\ (TierDone /\ pureIn[2] = 10) => pureOut[1] = "Senior Level"
    /\ (TierDone /\ pureIn[2] = 11) => pureOut[1] = "Executive"

C1_Witness == TierDone /\ pureIn[2] = 11 /\ pureOut[1] = "Executive"

(***************************************************************************)
(* The two panels as rendered: requests start through the controls that    *)
(* the current render offers                                               *)
(***************************************************************************)
UiTitles == {"", "ML Engineer"}

UiPredictOutcomes ==
    {Rejected("Failed to fetch"),
     Responded(200, "OK", JsonType, TextBody("<html>It works</html>")),
     Responded(500, "INTERNAL SERVER ERROR", JsonType,
               JsonBody(Obj([status |-> Str("error"), message |-> Str("Invalid input data")]))),
     Responded(200, "OK", JsonType,
               JsonBody(Obj([status |-> Str("success"), data |-> SomeResult])))}

UiOverviewOutcomes ==
    {Rejected("Failed to fetch"),
     Responded(200, "OK", JsonType, TextBody("<html>It works</html>")),
     Responded(500, "INTERNAL SERVER ERROR", JsonType,
               TextBody("<html>Internal Server Error</html>")),
     Responded(200, "OK", JsonType,
               JsonBody(Obj([status |-> Str("error"), message |-> Str("Dataset not loaded")])))}
    \cup {Responded(200, "OK", JsonType,
                    JsonBody(Obj([status |-> Str("success"),
                                  data |-> AnalyticsData(n, TotalRecords, {})]))) :
            n \in {0, 10}}

\* A click on the submit button: the form's handleSubmit and, when the form
\* is valid, the page's handlePrediction that it calls as onPredict.
SubmitForm ==
    /\ handleSubmit
    /\ IF onPredictCall' # <<>>
       THEN HandlePredictionBegin(onPredictCall'[1])
       ELSE UNCHANGED pageVars
    /\ UNCHANGED <<routeVars, pureVars, analyticsVars, historyVars>>

InitUi == FormInit /\ PageInit /\ AnalyticsIdle /\ HistoryIdle /\ RouteIdle /\ PureIdle

NextUi ==
    \/ /\ \E v \in UiTitles : SetJobTitle(v)
       /\ UNCHANGED <<pageVars, routeVars, pureVars, analyticsVars, historyVars>>
    \/ SubmitForm
    \/ \E i \in DOMAIN inFlight, outcome \in UiPredictOutcomes :
          HandlePredictionSettle(i, outcome)
    \/ /\ \/ MountEffects
          \/ \E i \in DOMAIN overviewRequests, o \in UiOverviewOutcomes :
                FetchAnalyticsDataSettle(i, o)
          \/ \E o \in SummaryOutcomes : FetchFilterOptionsSettle(o)
          \/ \E v \in FilterOptions("salaryRange") : handleFilterChange("salaryRange", v)
          \/ resetFilters
          \/ RefreshData
          \/ Retry
       /\ UNCHANGED <<formVars, pageVars, routeVars, pureVars, historyVars>>

SpecUi == InitUi /\ [][NextUi]_vars

\* C28: through the rendered controls at most one prediction request and
\* at most one overview request is in flight; while a prediction request
\* is in flight the submit button is disabled, and while an overview
\* request is in flight the panel shows the loading view, which has none
\* of the filter, reset, refresh and retry controls.
C28_OneRequestInFlight ==
    /\ Len(inFlight) <= 1
    /\ Len(overviewRequests) <= 1
    /\ isLoading => SubmitDisabled
    /\ inFlight # <<>> => (isLoading /\ SubmitDisabled)
    /\ AnalyticsView = "Loading" => AnalyticsControls = {}
    /\ overviewRequests # <<>> => (AnalyticsView = "Loading" /\ AnalyticsControls = {})

\* A prediction request and a filtered overview request are in flight.
C28_Witness ==
    /\ Len(inFlight) = 1 /\ isLoading
    /\ Len(overviewRequests) = 1 /\ AnalyticsView = "Loading"
    /\ filters.salaryRange = "150k+"
    /\ prediction = <<SomeResult>>

\* C30: every step in which a prediction call or an overview call settles
\* (success, HTTP error, malformed body, network failure) ends with that
\* panel's isLoading false; a call that starts sets it true, and it is true
\* in every state in which the call is in flight.
C30_LoadingEndsWhenSettled ==
    /\ [][CallStarts => isLoading']_vars
    /\ [][CallSettles => ~isLoading']_vars
    /\ [](isLoading <=> inFlight # <<>>)
    /\ [][RequestStarts => analyticsIsLoading']_vars
    /\ [][RequestSettles => ~analyticsIsLoading']_vars
    /\ [](overviewRequests # <<>> => analyticsIsLoading)
    /\ [][analyticsIsLoading' => (analyticsIsLoading \/ RequestStarts)]_vars

\* Both panels after a malformed body: an error, and not loading.
C30_Witness ==
    /\ settled # <<>> /\ settled[1].outcome.kind = "response"
    /\ settled[1].outcome.body = TextBody("<html>It works</html>")
    /\ ~isLoading /\ error # <<>>
    /\ analyticsError = <<"Unexpected token < in JSON at position 0">>
    /\ ~analyticsIsLoading /\ overviewRequests = <<>>

(***************************************************************************)
(* The base URLs that the clients read from the environment                *)
(***************************************************************************)
\* process.env[name]: undefined when the variable is not set
ProcessEnv(env, name) == IF name \in DOMAIN env THEN env[name] ELSE Undefined

LocalDevelopmentUrl == "http://localhost:5000"

\* route.ts:3, the route handler
FLASK_API_URL(env) ==
    OrElse(ProcessEnv(env, "NEXT_PUBLIC_FLASK_API_URL"), Str(LocalDevelopmentUrl)).v

\* route.ts:85-86, BACKEND_URL of the predict page
PredictBackendUrl(env) ==
    OrElse(ProcessEnv(env, "NEXT_PUBLIC_FLASK_API_URL"), Str(LocalDevelopmentUrl)).v

\* analytics/page.tsx:81, BACKEND_URL of the analytics dashboard
AnalyticsBackendUrl(env) ==
    OrElse(ProcessEnv(env, "NEXT_PUBLIC_BACKEND_URL"), Str(LocalDevelopmentUrl)).v

\* The URLs of the requests, route.ts:106 and analytics/page.tsx:185, 211.
ClientUrls(env) ==
    [predict |-> PredictBackendUrl(env) \o "/api/predict",
     overview |-> AnalyticsBackendUrl(env) \o "/api/analytics/overview?",
     summary |-> AnalyticsBackendUrl(env) \o "/api/analytics/data-summary",
     predictBase |-> PredictBackendUrl(env),
     analyticsBase |-> AnalyticsBackendUrl(env),
     routeBase |-> FLASK_API_URL(env)]

\* ---- the environments
EnvNames == {"NEXT_PUBLIC_FLASK_API_URL", "NEXT_PUBLIC_BACKEND_URL"}
EnvValues ==
    {Str(""), Str("http://localhost:5000"), Str("http://localhost:5001"),
     Str("http://127.0.0.1:5000"), Str("https://api.example.com"),
     Str("https://api.example.com/"), Str("https://flask.internal:8443")}

\* Every environment that sets some of the names.
Environments ==
    UNION {[names -> EnvValues] : names \in SUBSET EnvNames}

InitConfig ==
    /\ FormInit /\ PageInit /\ AnalyticsIdle /\ HistoryIdle /\ RouteIdle
    /\ pureIn \in {<<"env", env>> : env \in Environments}
    /\ pureOut = <<>>

\* The modules are loaded and their constants evaluated.
LoadModules ==
    /\ pureIn[1] = "env"
    /\ pureOut = <<>>
    /\ pureOut' = <<ClientUrls(pureIn[2])>>
    /\ UNCHANGED <<pureIn, formVars, pageVars, routeVars, analyticsVars, historyVars>>

NextConfig == LoadModules

SpecConfig == InitConfig /\ [][NextConfig]_vars

ConfigLoaded == pureIn # <<>> /\ pureIn[1] = "env" /\ pureOut # <<>>

\* C22 as stated: in every environment the prediction client and the
\* analytics client have the same base URL, and it is
\* http://localhost:5000 when the setting is absent.
C22_OneBaseUrl ==
    ConfigLoaded =>
        /\ pureOut[1].predictBase = pureOut[1].analyticsBase
        /\ (DOMAIN pureIn[2] = {}) =>
              pureOut[1].predictBase = "http://localhost:5000"

\* What holds of the code: each client reads its own variable, and each
\* falls back to http://localhost:5000 when its variable is unset or empty.
C22_EachClientOwnSetting ==
    ConfigLoaded =>
        LET env == pureIn[2]
            Set(name) == name \in DOMAIN env /\ env[name] # Str("")
        IN  /\ pureOut[1].predictBase =
                  IF Set("NEXT_PUBLIC_FLASK_API_URL") THEN env["NEXT_PUBLIC_FLASK_API_URL"].v
                  ELSE "http://localhost:5000"
            /\ pureOut[1].analyticsBase =
                  IF Set("NEXT_PUBLIC_BACKEND_URL") THEN env["NEXT_PUBLIC_BACKEND_URL"].v
                  ELSE "http://localhost:5000"
            /\ pureOut[1].routeBase = pureOut[1].predictBase

\* Only the prediction client's variable is set: the two clients differ.
C22_WitnessDiverge ==
    /\ ConfigLoaded
    /\ DOMAIN pureIn[2] = {"NEXT_PUBLIC_FLASK_API_URL"}
    /\ pureOut[1].predict = "https://api.example.com/api/predict"
    /\ pureOut[1].overview = "http://localhost:5000/api/analytics/overview?"

====
